---- MODULE Spec2Model ----
(***************************************************************************)
(* Prisma-Render: the scene editor with its undo/redo history (App.tsx,    *)
(* SceneEditor, Controls), the generation orchestrator (handleGenerate and *)
(* the render history) and the remote service wrapper (retryWithBackoff,   *)
(* generateVideoFromImage, renderArchitecturalImage).                      *)
(*                                                                         *)
(* React state is modelled as variables; one action is one event handler   *)
(* run to completion with its batched state updates applied, or one        *)
(* resumption of an asynchronous function after an await.                  *)
(***************************************************************************)
EXTENDS Integers, Sequences, FiniteSets, TLC

\* ------------------------------------------------------------------ bounds

\* Snapshot-taking handlers (add, remove, duplicate, drag start, draw complete,
\* image clear) run in one explored session.
MaxEdits == 2
\* Generations submitted in one explored session.
MaxJobs == 3
\* handleUseResultAsInput calls awaiting their file at one time.
MaxConversions == 1
\* Largest retry count explored for a direct retryWithBackoff call.
MaxRetries == 2
\* Status polls of one video call that find the operation not done.
MaxPolls == 2
\* Largest preset quantity explored (the input accepts 1..10).
MaxQuantity == 2
\* Snapshot-taking attribute edits (label, reference image) run after the
\* MaxEdits handlers that build the scene.
MaxAttributeEdits == 2
\* Largest pan offset explored, in pixels, along either axis.
MaxPan == 10

\* ------------------------------------------------------------ value spaces

\* A field that is undefined in the TypeScript record.
Undef == -1
NoString == "undefined"
NoPoints == << >>
Null == "null"
\* imageDimensions before any img.onload
NoDimensions == [width |-> 0, height |-> 0]
\* null for an id, a drawing tool, a drag and a temporary line
NoId == 0
NoTool == [type |-> "none", subtype |-> "none"]
NoDrag == [id |-> NoId, handle |-> "none"]
NoLine == [startX |-> Undef, startY |-> Undef, currentX |-> Undef, currentY |-> Undef]
\* no failure handled yet
NoFail == [wasActive |-> FALSE, message |-> Null, errorBefore |-> Null]
\* null for a remembered pointer position and a remembered pinch distance
NoPosition == [x |-> Undef, y |-> Undef]
NoDistance == 0
\* pan's initial value
Origin == [x |-> 0, y |-> 0]
\* Where the mouse or a finger is on the viewport container, in client pixels
ViewClients == { [x |-> 50, y |-> 30], [x |-> 60, y |-> 40] }
\* Distances between two fingers, in pixels: a pinch from one to the other
\* scales by 4 or by 1/4
PinchDistances == { 50, 200 }
\* -e.deltaY * zoomSensitivity of a wheel event, in hundredths (deltaY of
\* 1000 and of -1000)
WheelDeltas == { -100, 100 }
\* no editor state recorded (a recorded one has a non-empty past)
NoState == [scene |-> << >>, past |-> << >>, future |-> << >>]

\* The content box on screen (getBoundingClientRect), in pixels
ContentRect == [left |-> 10, top |-> 10, width |-> 200, height |-> 100]

\* Pointer positions in client pixels: where a press lands (inside the box)
\* and where a move takes the pointer (right of the box, just above its
\* bottom edge).
PressClients == { [x |-> 50, y |-> 30] }
MoveClients == { [x |-> 300, y |-> 109] }
\* Pointer positions over the box whose percentages sit on and around the
\* limits of getPositionDescription's buckets
BucketPercents == { 0, 34, 35, 36, 50, 64, 65, 66, 100 }
BucketClients ==
    { [x |-> ContentRect.left + (px * ContentRect.width) \div 100,
       y |-> ContentRect.top + (py * ContentRect.height) \div 100] :
          px \in BucketPercents, py \in BucketPercents }
\* Pointer positions far outside the box, on every side of it
StrayClients == { [x |-> cx, y |-> cy] : cx \in {-5000, 9, 211, 5000},
                                        cy \in {-5000, 9, 111, 5000} }

\* (type, subtype) pairs offered by the preset lists that are point elements.
PointPresets == { <<"person", "Man">> }
\* (type, description) pairs typed into the custom tab
CustomPresets == { <<"lighting", "Lamp">>, <<"lighting", "LED Spot">>, <<"person", "Man">> }
\* Descriptions typed into an element's label editor
EditedLabels == { "LED Strip", "Light bar" }
\* Values chosen in an element's temperature, pose and install-side controls
Temperatures == { 4000 }
Poses == { "lying" }
LightingPositions == { "back" }
\* The urls of the reference library, and what the FileReader reads from an
\* uploaded reference file (the second one has no data part)
ReferenceUrls == { "QUJD", "REVG" }
ReferenceFiles == { "data:image/png;base64,R0hJ", "data:" }
\* (type, subtype) pairs that arm the drawing tool.
LinearPresets == { <<"lighting", "LED Strip">> }

VARIABLES
    \* --- App.tsx: editor state
    sceneElements,      \* SceneElement[]
    selectedElementId,  \* string | null
    history,            \* SceneElement[][]  (past stack, newest last)
    future,             \* SceneElement[][]  (future stack, next first)
    activeDrawingTool,  \* {type, subtype} | null
    uploadedImage,      \* File | null, as present / absent
    imagePreview,       \* string | null, as present / absent
    readerPending,      \* a FileReader of handleImageUpload has not called back yet
    \* --- SceneEditor local state
    dragState,          \* {id, handle} | null
    drawingMode,        \* 'line' | 'freehand'
    isDrawing,
    tempLine,           \* {start, current} | null
    tempPath,           \* points recorded by the freehand draw
    zoom,               \* zoom factor in percent (1 is 100, 4 is 400)
    pan,                \* {x, y}
    isPanning,
    lastMousePosRef,    \* {x, y} | null
    lastTouchRef,       \* {x, y} | null
    lastPinchDistRef,   \* number | null
    touches,            \* fingers on the screen (the length of e.touches)
    \* --- id source
    nextId,
    edits,              \* snapshot-taking handlers run so far
    \* --- observation of the run (not program state)
    lastOp,             \* the handler that ran last
    preGraph,           \* the graph just before the last addition / removal
    undoBase,           \* editor state before the undo that lastOp = "undo"/"redo" follows
    undoRedo,           \* lastOp = "redo" directly followed an effective undo
    clearedFuture,      \* the last snapshot-taking handler found a non-empty future
    \* --- App.tsx: credential gate and orchestrator state
    hasApiKey,
    isCheckingKey,
    mode,               \* 'image' | 'video'
    isVideoUnlocked,    \* the video mode was unlocked with the code
    aspectRatio,        \* the ratio chosen in the controls
    imageDimensions,    \* {width, height} | null, set by img.onload
    imageLoading,       \* an Image of handleImageUpload has its onload pending
    renderHistory,      \* RenderResult[], newest first
    activeRenderId,     \* string | null
    isGenerating,       \* the busy flag
    globalError,        \* string | null
    \* --- asynchronous work in flight
    pipelines,          \* the detached async blocks of handleGenerate not yet finished
    nextJobId,          \* the clock behind tempId = Date.now().toString()
    conversions,        \* handleUseResultAsInput calls awaiting base64ToFile, per target mode
    refReads,           \* handleUpdateElementReferenceImage calls awaiting fileToBase64
    lastFail,           \* observation: the failure the last "fail" step handled
    operationName,      \* retryWithBackoff: the call that is running
    retries,            \* retryWithBackoff: retries left
    delay,              \* retryWithBackoff: the next wait, in ms
    pc,                 \* where the service call stands
    error,              \* the error the last catch received
    polls,              \* status polls issued by the running video call
    operationDone,      \* operation.done of the operation the video call holds
    responseStatus,     \* status of the download's Response
    serviceResult,      \* how the service call settled
    thrownMessage,      \* message of the error the service call rejected with
    retries0,           \* observation: retries the running retryWithBackoff began with
    delay0,             \* observation: delay the running retryWithBackoff began with
    attempts,           \* observation: invocations of the operation by that call
    waits,              \* observation: the waits of that call, in order
    retryResult         \* observation: how that call ended

\* SceneEditor's zoom and pan state and the refs of its navigation handlers
viewVars == << zoom, pan, isPanning, lastMousePosRef, lastTouchRef, lastPinchDistRef,
               touches >>

editorVars == << sceneElements, selectedElementId, history, future, activeDrawingTool,
                 uploadedImage, imagePreview, readerPending,
                 dragState, drawingMode, isDrawing, tempLine, tempPath, viewVars,
                 nextId, edits,
                 lastOp, preGraph, undoBase, undoRedo, clearedFuture >>

serviceVars == << operationName, retries, delay, pc, error, polls, operationDone,
                 responseStatus,
                 serviceResult, thrownMessage, retries0, delay0, attempts, waits,
                 retryResult >>

flightVars == << pipelines, nextJobId, conversions, refReads, serviceVars >>

\* The unlock flag and what resolveAspectRatio reads besides the mode
ratioVars == << isVideoUnlocked, aspectRatio, imageDimensions, imageLoading >>

jobVars == << hasApiKey, isCheckingKey, mode, ratioVars, renderHistory, activeRenderId,
              isGenerating, globalError, flightVars, lastFail >>

vars == << editorVars, jobVars >>

\* ------------------------------------------------------------- the editor

\* The three values undo and redo exchange.
EditorState == [scene |-> sceneElements, past |-> history, future |-> future]

Front(s) == SubSeq(s, 1, Len(s) - 1)
Max(a, b) == IF a > b THEN a ELSE b
Min(a, b) == IF a < b THEN a ELSE b

RECURSIVE FilterSeq(_, _)
\* prev.filter(el => el.id !== id)
FilterSeq(s, id) ==
    IF s = << >> THEN << >>
    ELSE IF Head(s).id = id THEN FilterSeq(Tail(s), id)
         ELSE << Head(s) >> \o FilterSeq(Tail(s), id)

ElementIds(s) == { s[i].id : i \in 1..Len(s) }

\* sceneElements.find(e => e.id === id): the first match
FindIndex(s, id) == CHOOSE i \in 1..Len(s) : s[i].id = id /\ \A j \in 1..(i-1) : s[j].id # id

\* A conversion that trusts the pointer to be over the box.
GetRelativeCoordsUnclamped(client) ==
    [ x |-> ((client.x - ContentRect.left) * 100) \div ContentRect.width,
      y |-> ((client.y - ContentRect.top) * 100) \div ContentRect.height ]

\* getRelativeCoords: the pointer's offset in the box, clamped to the box,
\* as a percentage
GetRelativeCoords(client) ==
    LET x == Min(Max(0, client.x - ContentRect.left), ContentRect.width)
        y == Min(Max(0, client.y - ContentRect.top), ContentRect.height) IN
    [ x |-> (x * 100) \div ContentRect.width,
      y |-> (y * 100) \div ContentRect.height ]

\* The positions the pointer handlers work with
PressPoints == { GetRelativeCoords(client) : client \in PressClients }
MovePoints == { GetRelativeCoords(client) : client \in MoveClients }

\* handleAddElement's newElement
NewPointElement(id, type, subtype, pos) ==
    [ id |-> id, type |-> type, subtype |-> subtype,
      x |-> pos.x, y |-> pos.y,
      endX |-> Undef, endY |-> Undef, points |-> NoPoints,
      referenceImage |-> NoString,
      colorTemperature |-> IF type = "lighting" THEN 3000 ELSE Undef,
      pose |-> IF type = "person" THEN "auto" ELSE NoString,
      lightingPosition |-> "front" ]

\* An element built with the two ends exchanged.
NewDrawnElementReversed(id, tool, start, end, points) ==
    [ id |-> id, type |-> tool.type, subtype |-> tool.subtype,
      x |-> end.x, y |-> end.y,
      endX |-> start.x, endY |-> start.y, points |-> points,
      referenceImage |-> NoString,
      colorTemperature |-> IF tool.type = "lighting" THEN 3000 ELSE Undef,
      pose |-> IF tool.type = "person" THEN "auto" ELSE NoString,
      lightingPosition |-> "front" ]

\* handleDrawComplete's newElement
NewDrawnElement(id, tool, start, end, points) ==
    [ id |-> id, type |-> tool.type, subtype |-> tool.subtype,
      x |-> start.x, y |-> start.y,
      endX |-> end.x, endY |-> end.y, points |-> points,
      referenceImage |-> NoString,
      colorTemperature |-> IF tool.type = "lighting" THEN 3000 ELSE Undef,
      pose |-> IF tool.type = "person" THEN "auto" ELSE NoString,
      lightingPosition |-> "front" ]

\* handleDuplicateElement's map over the points
ShiftPoint(p) == [x |-> Min(p.x + 2, 100), y |-> Min(p.y + 2, 100)]

\* handleDuplicateElement's newEl
DuplicateOf(el, id) ==
    [ el EXCEPT !.id = id,
                !.x = Min(el.x + 2, 100),
                !.y = Min(el.y + 2, 100),
                !.endX = IF el.endX # Undef THEN Min(el.endX + 2, 100) ELSE Undef,
                !.endY = IF el.endY # Undef THEN Min(el.endY + 2, 100) ELSE Undef,
                !.points = [i \in 1..Len(el.points) |-> ShiftPoint(el.points[i])] ]

\* A snapshot that leaves the future stack in place.
SaveHistoryFutureKept == future

\* A saveHistory that pushes nothing.
SaveHistoryPastSkipped(past, closureScene) == past

\* saveHistory as run by a handler whose closure holds `closureScene`:
\* setHistory(prev => [...prev, sceneElements]); setFuture([])
SaveHistoryPast(past, closureScene) == Append(past, closureScene)
SaveHistoryFuture == << >>

\* undo applied to an editor state
UndoResult(st) ==
    IF Len(st.past) = 0 THEN st
    ELSE [ scene  |-> st.past[Len(st.past)],
           past   |-> Front(st.past),
           future |-> << st.scene >> \o st.future ]

\* A redo that forgets to push the graph it replaces.
RedoResultLosesCurrent(st) ==
    IF Len(st.future) = 0 THEN st
    ELSE [ scene  |-> st.future[1],
           past   |-> st.past,
           future |-> Tail(st.future) ]

\* redo applied to an editor state
RedoResult(st) ==
    IF Len(st.future) = 0 THEN st
    ELSE [ scene  |-> st.future[1],
           past   |-> Append(st.past, st.scene),
           future |-> Tail(st.future) ]

\* The main screen is rendered: App returns the spinner while isCheckingKey and
\* the key prompt while !hasApiKey.
UIVisible == ~isCheckingKey /\ hasApiKey
\* SceneEditor is rendered only with an image preview.
EditorMounted == UIVisible /\ imagePreview

\* One pointer drives the session: while it is held down on a pin or on the
\* canvas (a drag or a draw is in progress) no button can be clicked. The
\* keyboard shortcuts for undo and redo stay available.
PointerFree == dragState = NoDrag /\ ~isDrawing

\* What every editor handler leaves alone unless it says otherwise.
SceneEditorLocals == << dragState, drawingMode, isDrawing, tempLine, tempPath, viewVars >>
ImageVars == << uploadedImage, imagePreview, readerPending >>

\* handleAddElement, point branch (handleAddCustom, handleAddFromLibrary and
\* handleAddPreset with quantity 1 call it once, without a position).
AddElementOf(presets) ==
    /\ UIVisible
    /\ PointerFree
    /\ edits < MaxEdits
    /\ \E p \in presets :
         LET el == NewPointElement(nextId, p[1], p[2], [x |-> 50, y |-> 50]) IN
         /\ history' = SaveHistoryPast(history, sceneElements)
         /\ future' = SaveHistoryFuture
         /\ sceneElements' = Append(sceneElements, el)
         /\ selectedElementId' = el.id
    /\ nextId' = nextId + 1
    /\ edits' = edits + 1
    /\ lastOp' = "add"
    /\ preGraph' = sceneElements
    /\ undoBase' = NoState
    /\ undoRedo' = FALSE
    /\ clearedFuture' = (future # << >>)
    /\ UNCHANGED << activeDrawingTool, ImageVars, SceneEditorLocals, jobVars >>

\* handleAddElement for a preset of the lists
AddElement == AddElementOf(PointPresets)

\* handleAddCustom: handleAddElement with the selected type and a typed
\* description
AddCustomElement == AddElementOf(CustomPresets)

\* The elements one handleAddPreset click with quantity q > 1 adds:
\* onAdd('person', preset, {x: 50 + (i - (q-1)/2) * 4, y: 50}) for i = 0..q-1
PresetElements(q, firstId) ==
    [ i \in 1..q |->
        NewPointElement(firstId + i - 1, "person", "Man",
                        [x |-> 50 + 4 * (i - 1) - 2 * (q - 1), y |-> 50]) ]

\* The past stack after the q calls of saveHistory made by one click: every
\* call runs in the closure of the same render, so each pushes the same
\* sceneElements.
PresetPast(past, closureScene, q) ==
    past \o [ i \in 1..q |-> closureScene ]

\* handleAddPreset with selectedType = 'person' and quantity > 1.
AddPresetOf(quantities) ==
    /\ UIVisible
    /\ PointerFree
    /\ edits < MaxEdits
    /\ \E q \in quantities :
         /\ LET els == PresetElements(q, nextId) IN
            /\ history' = PresetPast(history, sceneElements, q)
            /\ future' = SaveHistoryFuture
            /\ sceneElements' = sceneElements \o els
            /\ selectedElementId' = els[q].id
            /\ preGraph' = sceneElements \o Front(els)
         /\ nextId' = nextId + q
    /\ edits' = edits + 1
    /\ lastOp' = "addPreset"
    /\ undoBase' = NoState
    /\ undoRedo' = FALSE
    /\ clearedFuture' = (future # << >>)
    /\ UNCHANGED << activeDrawingTool, ImageVars, SceneEditorLocals, jobVars >>

\* handleAddPreset with a quantity the spinner's range offers
AddPreset == AddPresetOf(2..MaxQuantity)

\* Quantities typed into the input: onChange keeps any number of at least 1
\* (the max attribute limits the spinner, not the typed value).
TypedQuantities == {2, 10, 26, 27}

\* handleAddPreset with a typed quantity
AddTypedPreset == AddPresetOf(TypedQuantities)

\* handleAddElement, linear branch: arms the drawing tool.
ArmDrawingTool ==
    /\ UIVisible
    /\ PointerFree
    /\ \E p \in LinearPresets :
         activeDrawingTool' = [type |-> p[1], subtype |-> p[2]]
    /\ edits' = edits
    /\ lastOp' = "other"
    /\ undoBase' = NoState
    /\ undoRedo' = FALSE
    /\ clearedFuture' = FALSE
    /\ UNCHANGED << sceneElements, selectedElementId, history, future, ImageVars,
                    SceneEditorLocals, nextId, preGraph, jobVars >>

\* handleDuplicateElement
DuplicateElement ==
    /\ UIVisible
    /\ PointerFree
    /\ edits < MaxEdits
    /\ \E id \in ElementIds(sceneElements) :
         LET el == sceneElements[FindIndex(sceneElements, id)]
             newEl == DuplicateOf(el, nextId) IN
         /\ history' = SaveHistoryPast(history, sceneElements)
         /\ future' = SaveHistoryFuture
         /\ sceneElements' = Append(sceneElements, newEl)
         /\ selectedElementId' = newEl.id
    /\ nextId' = nextId + 1
    /\ edits' = edits + 1
    /\ lastOp' = "duplicate"
    /\ preGraph' = sceneElements
    /\ undoBase' = NoState
    /\ undoRedo' = FALSE
    /\ clearedFuture' = (future # << >>)
    /\ UNCHANGED << activeDrawingTool, ImageVars, SceneEditorLocals, jobVars >>

\* handleRemoveElement
RemoveElement ==
    /\ UIVisible
    /\ PointerFree
    /\ edits < MaxEdits
    /\ \E id \in ElementIds(sceneElements) :
         /\ history' = SaveHistoryPast(history, sceneElements)
         /\ future' = SaveHistoryFuture
         /\ sceneElements' = FilterSeq(sceneElements, id)
         /\ selectedElementId' = IF selectedElementId = id THEN NoId ELSE selectedElementId
    /\ edits' = edits + 1
    /\ lastOp' = "remove"
    /\ preGraph' = sceneElements
    /\ undoBase' = NoState
    /\ undoRedo' = FALSE
    /\ clearedFuture' = (future # << >>)
    /\ UNCHANGED << activeDrawingTool, ImageVars, SceneEditorLocals, nextId, jobVars >>

\* ---- strings

\* String.prototype.includes
StringIncludes(s, needle) ==
    \E i \in 1..(Len(s) - Len(needle) + 1) : SubSeq(s, i, i + Len(needle) - 1) = needle

UpperCaseLetters == "ABCDEFGHIJKLMNOPQRSTUVWXYZ"
LowerCaseLetters == "abcdefghijklmnopqrstuvwxyz"

LowerCaseOf(c) ==
    IF \E i \in 1..26 : SubSeq(UpperCaseLetters, i, i) = c
    THEN LET i == CHOOSE k \in 1..26 : SubSeq(UpperCaseLetters, k, k) = c IN
         SubSeq(LowerCaseLetters, i, i)
    ELSE c

RECURSIVE ToLowerCase(_)
\* String.prototype.toLowerCase
ToLowerCase(s) ==
    IF Len(s) = 0 THEN ""
    ELSE LowerCaseOf(SubSeq(s, 1, 1)) \o ToLowerCase(SubSeq(s, 2, Len(s)))

RECURSIVE TrimStart(_)
TrimStart(s) ==
    IF Len(s) > 0 /\ SubSeq(s, 1, 1) = " " THEN TrimStart(SubSeq(s, 2, Len(s))) ELSE s

RECURSIVE TrimEnd(_)
TrimEnd(s) ==
    IF Len(s) > 0 /\ SubSeq(s, Len(s), Len(s)) = " "
    THEN TrimEnd(SubSeq(s, 1, Len(s) - 1)) ELSE s

\* String.prototype.trim
Trim(s) == TrimEnd(TrimStart(s))

RECURSIVE Join(_, _)
\* Array.prototype.join
Join(strings, separator) ==
    IF Len(strings) = 0 THEN ""
    ELSE IF Len(strings) = 1 THEN strings[1]
    ELSE strings[1] \o separator \o Join(Tail(strings), separator)

\* The positions of the commas of s
CommaPositions(s) == { i \in 1..Len(s) : SubSeq(s, i, i) = "," }

\* extractBase64Data: dataUrl.split(',')[1] || dataUrl
ExtractBase64Data(dataUrl) ==
    IF CommaPositions(dataUrl) = {} THEN dataUrl
    ELSE LET first == CHOOSE i \in CommaPositions(dataUrl) :
                          \A j \in CommaPositions(dataUrl) : i <= j
             later == { j \in CommaPositions(dataUrl) : j > first }
             stop == IF later = {} THEN Len(dataUrl) + 1
                     ELSE CHOOSE j \in later : \A k \in later : j <= k
             second == SubSeq(dataUrl, first + 1, stop - 1) IN
         IF second = "" THEN dataUrl ELSE second

\* JavaScript truthiness of the optional fields of an element
HasReferenceImage(el) == el.referenceImage # NoString /\ el.referenceImage # ""
HasColorTemperature(el) == el.colorTemperature # Undef /\ el.colorTemperature # 0

\* ---- attribute editors

\* prev.map(el => el.id === id ? {...el, <field>: value} : el), one operator
\* per field
WithSubtype(s, id, value) ==
    [ i \in 1..Len(s) |-> IF s[i].id = id THEN [s[i] EXCEPT !.subtype = value] ELSE s[i] ]
WithReferenceImage(s, id, value) ==
    [ i \in 1..Len(s) |->
        IF s[i].id = id THEN [s[i] EXCEPT !.referenceImage = value] ELSE s[i] ]
WithColorTemperature(s, id, value) ==
    [ i \in 1..Len(s) |->
        IF s[i].id = id THEN [s[i] EXCEPT !.colorTemperature = value] ELSE s[i] ]
WithPose(s, id, value) ==
    [ i \in 1..Len(s) |-> IF s[i].id = id THEN [s[i] EXCEPT !.pose = value] ELSE s[i] ]
WithLightingPosition(s, id, value) ==
    [ i \in 1..Len(s) |->
        IF s[i].id = id THEN [s[i] EXCEPT !.lightingPosition = value] ELSE s[i] ]

\* What an attribute editor that calls saveHistory does besides its map
AttributeSnapshot ==
    /\ edits < MaxEdits + MaxAttributeEdits
    /\ history' = SaveHistoryPast(history, sceneElements)
    /\ future' = SaveHistoryFuture
    /\ edits' = edits + 1
    /\ preGraph' = sceneElements
    /\ clearedFuture' = (future # << >>)

\* What an attribute editor that does not call saveHistory leaves alone
NoSnapshot ==
    /\ edits' = edits
    /\ clearedFuture' = FALSE
    /\ UNCHANGED << history, future, preGraph >>

\* handleUpdateElementDescription (ElementItem's handleSaveEdit passes only a
\* description that is not blank)
UpdateElementDescription ==
    /\ UIVisible
    /\ PointerFree
    /\ \E id \in ElementIds(sceneElements), newDescription \in EditedLabels :
         /\ Trim(newDescription) # ""
         /\ sceneElements' = WithSubtype(sceneElements, id, newDescription)
    /\ AttributeSnapshot
    /\ lastOp' = "description"
    /\ undoBase' = NoState
    /\ undoRedo' = FALSE
    /\ UNCHANGED << selectedElementId, activeDrawingTool, ImageVars, SceneEditorLocals,
                    nextId, jobVars >>

\* handleSelectGlobalReferenceForElement
SelectGlobalReferenceForElement ==
    /\ UIVisible
    /\ PointerFree
    /\ \E elementId \in ElementIds(sceneElements), refUrl \in ReferenceUrls :
         sceneElements' = WithReferenceImage(sceneElements, elementId, refUrl)
    /\ AttributeSnapshot
    /\ lastOp' = "selectReference"
    /\ undoBase' = NoState
    /\ undoRedo' = FALSE
    /\ UNCHANGED << selectedElementId, activeDrawingTool, ImageVars, SceneEditorLocals,
                    nextId, jobVars >>

\* handleRemoveElementReferenceImage (the button on the reference thumbnail)
RemoveElementReferenceImage ==
    /\ UIVisible
    /\ PointerFree
    /\ \E id \in ElementIds(sceneElements) :
         /\ HasReferenceImage(sceneElements[FindIndex(sceneElements, id)])
         /\ sceneElements' = WithReferenceImage(sceneElements, id, NoString)
    /\ AttributeSnapshot
    /\ lastOp' = "removeReference"
    /\ undoBase' = NoState
    /\ undoRedo' = FALSE
    /\ UNCHANGED << selectedElementId, activeDrawingTool, ImageVars, SceneEditorLocals,
                    nextId, jobVars >>

\* handleUpdateElementReferenceImage up to its await: saveHistory, then the
\* file is being read
UpdateElementReferenceImage ==
    /\ UIVisible
    /\ PointerFree
    /\ \E id \in ElementIds(sceneElements), file \in ReferenceFiles :
         /\ [id |-> id, file |-> file] \notin refReads
         /\ refReads' = refReads \cup { [id |-> id, file |-> file] }
    /\ AttributeSnapshot
    /\ lastOp' = "uploadReference"
    /\ undoBase' = NoState
    /\ undoRedo' = FALSE
    /\ UNCHANGED << sceneElements, selectedElementId, activeDrawingTool, ImageVars,
                    SceneEditorLocals, nextId,
                    hasApiKey, isCheckingKey, mode, ratioVars, renderHistory, activeRenderId,
                    isGenerating, globalError, pipelines, nextJobId, conversions,
                    serviceVars, lastFail >>

\* fileToBase64's split of the FileReader result: [header, base64]
SplitDataUrl(result) ==
    LET commas == CommaPositions(result)
        first == IF commas = {} THEN Len(result) + 1
                 ELSE CHOOSE i \in commas : \A j \in commas : i <= j
        later == { j \in commas : j > first }
        stop == IF later = {} THEN Len(result) + 1
                ELSE CHOOSE j \in later : \A k \in later : j <= k IN
    [ header |-> SubSeq(result, 1, first - 1),
      base64 |-> SubSeq(result, first + 1, stop - 1) ]

\* handleUpdateElementReferenceImage after its await: fileToBase64 resolved
\* and the element gets the base64 part, or it rejected (no header or no
\* data in the result) and the catch reports it
ReferenceImageLoaded ==
    /\ \E read \in refReads :
         /\ refReads' = refReads \ { read }
         /\ LET parts == SplitDataUrl(read.file) IN
            IF parts.header = "" \/ parts.base64 = ""
            THEN /\ globalError' = "Failed to upload reference image"
                 /\ UNCHANGED sceneElements
            ELSE /\ sceneElements' = WithReferenceImage(sceneElements, read.id,
                                                        parts.base64)
                 /\ UNCHANGED globalError
    /\ NoSnapshot
    /\ lastOp' = "referenceLoaded"
    /\ undoBase' = NoState
    /\ undoRedo' = FALSE
    /\ lastFail' = NoFail
    /\ UNCHANGED << selectedElementId, activeDrawingTool, ImageVars, SceneEditorLocals,
                    nextId,
                    hasApiKey, isCheckingKey, mode, ratioVars, renderHistory, activeRenderId,
                    isGenerating, pipelines, nextJobId, conversions, serviceVars >>

\* handleUpdateElementTemperature (the input is shown for a lighting element
\* that has a temperature)
UpdateElementTemperature ==
    /\ UIVisible
    /\ PointerFree
    /\ \E id \in ElementIds(sceneElements), temp \in Temperatures :
         LET el == sceneElements[FindIndex(sceneElements, id)] IN
         /\ el.type = "lighting" /\ el.colorTemperature # Undef
         /\ el.colorTemperature # temp
         /\ sceneElements' = WithColorTemperature(sceneElements, id, temp)
    /\ NoSnapshot
    /\ lastOp' = "temperature"
    /\ undoBase' = NoState
    /\ undoRedo' = FALSE
    /\ UNCHANGED << selectedElementId, activeDrawingTool, ImageVars, SceneEditorLocals,
                    nextId, jobVars >>

\* handleUpdateElementPose (the select is shown for a person that has a pose)
UpdateElementPose ==
    /\ UIVisible
    /\ PointerFree
    /\ \E id \in ElementIds(sceneElements), pose \in Poses :
         LET el == sceneElements[FindIndex(sceneElements, id)] IN
         /\ el.type = "person" /\ el.pose # NoString
         /\ el.pose # pose
         /\ sceneElements' = WithPose(sceneElements, id, pose)
    /\ NoSnapshot
    /\ lastOp' = "pose"
    /\ undoBase' = NoState
    /\ undoRedo' = FALSE
    /\ UNCHANGED << selectedElementId, activeDrawingTool, ImageVars, SceneEditorLocals,
                    nextId, jobVars >>

\* handleUpdateLightingPosition (the select is shown for an element whose
\* label includes 'LED')
UpdateLightingPosition ==
    /\ UIVisible
    /\ PointerFree
    /\ \E id \in ElementIds(sceneElements), position \in LightingPositions :
         LET el == sceneElements[FindIndex(sceneElements, id)] IN
         /\ StringIncludes(el.subtype, "LED")
         /\ el.lightingPosition # position
         /\ sceneElements' = WithLightingPosition(sceneElements, id, position)
    /\ NoSnapshot
    /\ lastOp' = "lightingPosition"
    /\ undoBase' = NoState
    /\ undoRedo' = FALSE
    /\ UNCHANGED << selectedElementId, activeDrawingTool, ImageVars, SceneEditorLocals,
                    nextId, jobVars >>

\* undo (toolbar button or ctrl/cmd+z)
Undo ==
    /\ EditorMounted
    /\ LET st == UndoResult(EditorState) IN
         /\ sceneElements' = st.scene
         /\ history' = st.past
         /\ future' = st.future
    /\ edits' = edits
    /\ lastOp' = "undo"
    /\ undoBase' = IF Len(history) = 0 THEN NoState ELSE EditorState
    /\ undoRedo' = FALSE
    /\ clearedFuture' = FALSE
    /\ UNCHANGED << selectedElementId, activeDrawingTool, ImageVars, SceneEditorLocals,
                    nextId, preGraph, jobVars >>

\* redo (toolbar button, ctrl/cmd+y or ctrl/cmd+shift+Z)
Redo ==
    /\ EditorMounted
    /\ LET st == RedoResult(EditorState) IN
         /\ sceneElements' = st.scene
         /\ history' = st.past
         /\ future' = st.future
    /\ edits' = edits
    /\ lastOp' = "redo"
    /\ clearedFuture' = FALSE
    /\ undoRedo' = (lastOp = "undo" /\ undoBase # NoState)
    /\ undoBase' = IF lastOp = "undo" THEN undoBase ELSE NoState
    /\ UNCHANGED << selectedElementId, activeDrawingTool, ImageVars, SceneEditorLocals,
                    nextId, preGraph, jobVars >>

\* SceneEditor's pin rendering: isLinear and isFreehand
IsLinear(el) == (el.endX # Undef /\ el.endY # Undef) \/ Len(el.points) > 0
IsFreehand(el) == el.points # NoPoints

\* A map that moves the addressed element whatever its geometry.
MovedElementWithoutPathTest(el, id, pt, isEndPoint) ==
    IF el.id # id THEN el
    ELSE IF isEndPoint THEN [el EXCEPT !.endX = pt.x, !.endY = pt.y]
    ELSE [el EXCEPT !.x = pt.x, !.y = pt.y]

\* handleUpdateElementPosition's map over the elements
MovedElement(el, id, pt, isEndPoint) ==
    IF el.id # id THEN el
    ELSE IF el.points # NoPoints THEN el
    ELSE IF isEndPoint THEN [el EXCEPT !.endX = pt.x, !.endY = pt.y]
    ELSE [el EXCEPT !.x = pt.x, !.y = pt.y]

UpdateElementPosition(s, id, pt, isEndPoint) ==
    [ i \in 1..Len(s) |-> MovedElement(s[i], id, pt, isEndPoint) ]

\* The freehand decimation of handlePointerMove: dx*dx + dy*dy > 0.05
\* (coordinates here are whole percentages, so the test is on integers: > 0)
FarEnough(last, pt) ==
    (pt.x - last.x) * (pt.x - last.x) + (pt.y - last.y) * (pt.y - last.y) > 0

\* A pin handle's onPointerDown: handleInteractionStart, then the drag begins.
PinPointerDown ==
    /\ EditorMounted
    /\ PointerFree
    /\ activeDrawingTool = NoTool
    /\ edits < MaxEdits
    /\ \E i \in 1..Len(sceneElements), handle \in {"start", "end"} :
         LET el == sceneElements[i] IN
         /\ handle = "end" => (IsLinear(el) /\ ~IsFreehand(el))
         /\ dragState' = [id |-> el.id, handle |-> handle]
         /\ selectedElementId' = el.id
    /\ history' = SaveHistoryPast(history, sceneElements)
    /\ future' = SaveHistoryFuture
    /\ edits' = edits + 1
    /\ lastOp' = "dragStart"
    /\ preGraph' = sceneElements
    /\ undoBase' = NoState
    /\ undoRedo' = FALSE
    /\ clearedFuture' = (future # << >>)
    /\ UNCHANGED viewVars
    /\ UNCHANGED << sceneElements, activeDrawingTool, ImageVars, drawingMode, isDrawing,
                    tempLine, tempPath, nextId, jobVars >>

\* handlePointerDown on the content box
CanvasPointerDown ==
    /\ EditorMounted
    /\ PointerFree
    /\ \/ /\ activeDrawingTool # NoTool
          /\ \E pt \in PressPoints :
               /\ isDrawing' = TRUE
               /\ IF drawingMode = "line"
                  THEN /\ tempLine' = [startX |-> pt.x, startY |-> pt.y,
                                       currentX |-> pt.x, currentY |-> pt.y]
                       /\ tempPath' = tempPath
                  ELSE /\ tempPath' = << pt >>
                       /\ tempLine' = tempLine
          /\ UNCHANGED selectedElementId
       \/ /\ activeDrawingTool = NoTool
          /\ dragState = NoDrag
          /\ selectedElementId # NoId
          /\ selectedElementId' = NoId
          /\ UNCHANGED << isDrawing, tempLine, tempPath >>
    /\ edits' = edits
    /\ lastOp' = "other"
    /\ undoBase' = NoState
    /\ undoRedo' = FALSE
    /\ clearedFuture' = FALSE
    /\ UNCHANGED viewVars
    /\ UNCHANGED << sceneElements, history, future, activeDrawingTool, ImageVars,
                    dragState, drawingMode, nextId, preGraph, jobVars >>

\* handlePointerMove on the content box
CanvasPointerMoveTo(points) ==
    /\ EditorMounted
    /\ \E pt \in points :
         \/ /\ isDrawing
            /\ \/ /\ drawingMode = "line"
                  /\ tempLine # NoLine
                  /\ tempLine' = [tempLine EXCEPT !.currentX = pt.x, !.currentY = pt.y]
                  /\ UNCHANGED tempPath
               \/ /\ drawingMode = "freehand"
                  /\ tempPath' = IF tempPath = << >> THEN << pt >>
                                 ELSE IF FarEnough(tempPath[Len(tempPath)], pt)
                                      THEN Append(tempPath, pt)
                                      ELSE tempPath
                  /\ UNCHANGED tempLine
            /\ UNCHANGED sceneElements
         \/ /\ ~isDrawing
            /\ dragState # NoDrag
            /\ sceneElements' = UpdateElementPosition(sceneElements, dragState.id, pt,
                                                      dragState.handle = "end")
            /\ UNCHANGED << tempLine, tempPath >>
    /\ edits' = edits
    /\ lastOp' = "other"
    /\ undoBase' = NoState
    /\ undoRedo' = FALSE
    /\ clearedFuture' = FALSE
    /\ UNCHANGED viewVars
    /\ UNCHANGED << selectedElementId, history, future, activeDrawingTool, ImageVars,
                    dragState, drawingMode, isDrawing, nextId, preGraph, jobVars >>

\* handlePointerMove with the pointer right of the box
CanvasPointerMove == CanvasPointerMoveTo(MovePoints)

\* handlePointerMove with the pointer right of the box or inside it
CanvasPointerMoveInside == CanvasPointerMoveTo(PressPoints \cup MovePoints)

\* handlePointerMove with the pointer on or around a bucket limit
CanvasPointerMoveToBucket ==
    CanvasPointerMoveTo({ GetRelativeCoords(client) : client \in BucketClients })

\* The arguments handlePointerUp passes to onDrawComplete, or none
\* A release that commits a freehand draw of any length.
DrawCommitsAnyPath == (drawingMode = "line" /\ tempLine # NoLine)
                        \/ (drawingMode = "freehand" /\ Len(tempPath) > 0)

DrawCommits == (drawingMode = "line" /\ tempLine # NoLine)
                 \/ (drawingMode = "freehand" /\ Len(tempPath) > 1)
DrawStart == IF drawingMode = "line" THEN [x |-> tempLine.startX, y |-> tempLine.startY]
             ELSE tempPath[1]
DrawEnd == IF drawingMode = "line" THEN [x |-> tempLine.currentX, y |-> tempLine.currentY]
           ELSE tempPath[Len(tempPath)]
DrawPoints == IF drawingMode = "line" THEN NoPoints ELSE tempPath

\* handlePointerUp on the content box (a pin's own onPointerUp does the same
\* setDragState(null) before the event reaches it); with a draw in progress it
\* calls handleDrawComplete, whose setActiveDrawingTool(null) makes the
\* SceneEditor effect reset the drawing mode.
CanvasPointerUp ==
    /\ EditorMounted
    /\ \/ /\ isDrawing /\ activeDrawingTool # NoTool
          /\ IF DrawCommits
             THEN /\ edits < MaxEdits
                  /\ edits' = edits + 1
                  /\ LET el == NewDrawnElement(nextId, activeDrawingTool, DrawStart,
                                               DrawEnd, DrawPoints) IN
                     /\ history' = SaveHistoryPast(history, sceneElements)
                     /\ future' = SaveHistoryFuture
                     /\ sceneElements' = Append(sceneElements, el)
                     /\ selectedElementId' = el.id
                  /\ activeDrawingTool' = NoTool
                  /\ drawingMode' = "line"
                  /\ nextId' = nextId + 1
                  /\ lastOp' = "drawComplete"
                  /\ preGraph' = sceneElements
                  /\ clearedFuture' = (future # << >>)
             ELSE /\ clearedFuture' = FALSE
                  /\ lastOp' = "drawDiscard"
                  /\ UNCHANGED << edits, history, future, sceneElements, selectedElementId,
                                  activeDrawingTool, drawingMode, nextId, preGraph >>
          /\ isDrawing' = FALSE
          /\ tempLine' = NoLine
          /\ tempPath' = << >>
          /\ UNCHANGED dragState
       \/ /\ ~(isDrawing /\ activeDrawingTool # NoTool)
          /\ dragState # NoDrag
          /\ dragState' = NoDrag
          /\ clearedFuture' = FALSE
          /\ lastOp' = "other"
          /\ UNCHANGED << edits, history, future, sceneElements, selectedElementId,
                          activeDrawingTool, drawingMode, isDrawing, tempLine, tempPath,
                          nextId, preGraph >>
    /\ undoBase' = NoState
    /\ undoRedo' = FALSE
    /\ UNCHANGED viewVars
    /\ UNCHANGED << ImageVars, jobVars >>

\* The line / freehand toggle, shown while a drawing tool is armed.
SetDrawingMode ==
    /\ EditorMounted
    /\ PointerFree
    /\ activeDrawingTool # NoTool
    /\ \E m \in {"line", "freehand"} :
         /\ m # drawingMode
         /\ drawingMode' = m
    /\ edits' = edits
    /\ lastOp' = "other"
    /\ undoBase' = NoState
    /\ undoRedo' = FALSE
    /\ clearedFuture' = FALSE
    /\ UNCHANGED viewVars
    /\ UNCHANGED << sceneElements, selectedElementId, history, future, activeDrawingTool,
                    ImageVars, dragState, isDrawing, tempLine, tempPath, nextId,
                    preGraph, jobVars >>

\* SceneEditor's effect on activeDrawingTool becoming null, and the state a
\* freshly mounted SceneEditor starts with.
FreshLocals ==
    /\ dragState' = NoDrag
    /\ drawingMode' = "line"
    /\ isDrawing' = FALSE
    /\ tempLine' = NoLine
    /\ tempPath' = << >>
    /\ zoom' = 100
    /\ pan' = Origin
    /\ isPanning' = FALSE
    /\ lastMousePosRef' = NoPosition
    /\ lastTouchRef' = NoPosition
    /\ lastPinchDistRef' = NoDistance
    /\ touches' = touches

ToolDisarmed ==
    /\ drawingMode' = "line"
    /\ isDrawing' = FALSE
    /\ tempLine' = NoLine
    /\ tempPath' = << >>

\* handleImageUpload(file, keepElements): ImageUploader passes no second
\* argument, SceneEditor's replace button passes true.
ImageUploadEffects(keepElements) ==
    /\ uploadedImage' = TRUE
    /\ activeRenderId' = NoId
    /\ globalError' = Null
    /\ renderHistory' = << >>
    /\ IF keepElements
       THEN UNCHANGED << sceneElements, selectedElementId, history, future >>
       ELSE /\ sceneElements' = << >>
            /\ selectedElementId' = NoId
            /\ history' = << >>
            /\ future' = << >>
    /\ activeDrawingTool' = NoTool
    /\ readerPending' = TRUE

\* ImageUploader's onImageUpload (shown while there is no preview)
UploadImage ==
    /\ UIVisible
    /\ PointerFree
    /\ ~imagePreview
    /\ ImageUploadEffects(FALSE)
    /\ ToolDisarmed
    /\ edits' = edits
    /\ lastOp' = "upload"
    /\ undoBase' = NoState
    /\ undoRedo' = FALSE
    /\ clearedFuture' = FALSE
    /\ lastFail' = NoFail
    /\ UNCHANGED viewVars
    /\ UNCHANGED << imagePreview, dragState, nextId, preGraph,
                    hasApiKey, isCheckingKey, mode, ratioVars, isGenerating, flightVars >>

\* SceneEditor's onReplaceImage
ReplaceImage ==
    /\ EditorMounted
    /\ PointerFree
    /\ ImageUploadEffects(TRUE)
    /\ ToolDisarmed
    /\ edits' = edits
    /\ lastOp' = "replace"
    /\ undoBase' = NoState
    /\ undoRedo' = FALSE
    /\ clearedFuture' = FALSE
    /\ lastFail' = NoFail
    /\ UNCHANGED viewVars
    /\ UNCHANGED << imagePreview, dragState, nextId, preGraph,
                    hasApiKey, isCheckingKey, mode, ratioVars, isGenerating, flightVars >>

\* reader.onloadend of handleImageUpload: setImagePreview(reader.result), which
\* is null when the read failed. SceneEditor mounts or unmounts with it.
ReaderLoadEnd ==
    /\ readerPending
    /\ readerPending' = FALSE
    /\ \E ok \in BOOLEAN :
         /\ imagePreview' = ok
         /\ imageLoading' = (imageLoading \/ ok)
         /\ IF ok = imagePreview /\ UIVisible
            THEN UNCHANGED SceneEditorLocals
            ELSE FreshLocals
    /\ edits' = edits
    /\ lastOp' = "readerLoadEnd"
    /\ undoBase' = NoState
    /\ undoRedo' = FALSE
    /\ clearedFuture' = FALSE
    /\ lastFail' = NoFail
    /\ UNCHANGED << sceneElements, selectedElementId, history, future, activeDrawingTool,
                    uploadedImage, nextId, preGraph, hasApiKey, isCheckingKey, mode,
                    isVideoUnlocked, aspectRatio, imageDimensions,
                    renderHistory, activeRenderId, isGenerating, globalError,
                    flightVars >>

\* SceneEditor's onClearImage (the inline handler in App)
ClearImage ==
    /\ EditorMounted
    /\ PointerFree
    /\ edits < MaxEdits
    /\ history' = SaveHistoryPast(history, sceneElements)
    /\ future' = SaveHistoryFuture
    /\ uploadedImage' = FALSE
    /\ imagePreview' = FALSE
    /\ sceneElements' = << >>
    /\ selectedElementId' = NoId
    /\ renderHistory' = << >>
    /\ activeRenderId' = NoId
    /\ activeDrawingTool' = NoTool
    /\ FreshLocals
    /\ edits' = edits + 1
    /\ lastOp' = "clearImage"
    /\ preGraph' = sceneElements
    /\ undoBase' = NoState
    /\ undoRedo' = FALSE
    /\ clearedFuture' = (future # << >>)
    /\ lastFail' = NoFail
    /\ UNCHANGED << readerPending, nextId, hasApiKey, isCheckingKey, mode, ratioVars,
                    isGenerating, globalError, flightVars >>

\* The mount effect checkKey: hasSelectedApiKey() answers, or the fallback
\* sets the flag.
CheckKey ==
    /\ isCheckingKey
    /\ isCheckingKey' = FALSE
    /\ \E hasKey \in BOOLEAN : hasApiKey' = hasKey
    /\ lastOp' = "other"
    /\ lastFail' = NoFail
    /\ UNCHANGED << sceneElements, selectedElementId, history, future, activeDrawingTool,
                    ImageVars, SceneEditorLocals, nextId, edits, preGraph, undoBase,
                    undoRedo, clearedFuture,
                    mode, ratioVars, renderHistory, activeRenderId, isGenerating, globalError,
                    flightVars >>

\* handleSelectKey (the key prompt's button and the header's key editor)
SelectKey ==
    /\ ~isCheckingKey
    /\ hasApiKey' = TRUE
    /\ globalError' = Null
    /\ IF hasApiKey THEN UNCHANGED SceneEditorLocals ELSE FreshLocals
    /\ lastOp' = "selectKey"
    /\ lastFail' = NoFail
    /\ UNCHANGED << sceneElements, selectedElementId, history, future, activeDrawingTool,
                    ImageVars, nextId, edits, preGraph, undoBase, undoRedo, clearedFuture,
                    isCheckingKey, mode, ratioVars, renderHistory, activeRenderId, isGenerating,
                    flightVars >>

\* ------------------------------------------------------ initial state

InitEditor ==
    /\ sceneElements = << >>
    /\ selectedElementId = NoId
    /\ history = << >>
    /\ future = << >>
    /\ activeDrawingTool = NoTool
    /\ uploadedImage = FALSE
    /\ imagePreview = FALSE
    /\ readerPending = FALSE
    /\ dragState = NoDrag
    /\ drawingMode = "line"
    /\ isDrawing = FALSE
    /\ tempLine = NoLine
    /\ tempPath = << >>
    /\ nextId = 1
    /\ edits = 0
    /\ lastOp = "none"
    /\ preGraph = << >>
    /\ undoBase = NoState
    /\ undoRedo = FALSE
    /\ clearedFuture = FALSE

\* no error caught yet
NoError == [status |-> Undef, code |-> Undef, message |-> ""]

\* No service call has been made.
InitService ==
    /\ operationName = "none"
    /\ retries = 0
    /\ delay = 0
    /\ pc = "idle"
    /\ error = NoError
    /\ polls = 0
    /\ operationDone = FALSE
    /\ responseStatus = Undef
    /\ serviceResult = "none"
    /\ thrownMessage = ""
    /\ retries0 = 0
    /\ delay0 = 0
    /\ attempts = 0
    /\ waits = << >>
    /\ retryResult = "none"

InitJobs ==
    /\ hasApiKey = FALSE
    /\ isCheckingKey = TRUE
    /\ mode = "image"
    /\ isVideoUnlocked = FALSE
    /\ aspectRatio = "Original"
    /\ imageDimensions = NoDimensions
    /\ imageLoading = FALSE
    /\ renderHistory = << >>
    /\ activeRenderId = NoId
    /\ isGenerating = FALSE
    /\ globalError = Null
    /\ pipelines = {}
    /\ nextJobId = 1
    /\ conversions = [m \in {"image", "video"} |-> 0]
    /\ lastFail = NoFail

\* SceneEditor's useState / useRef initial values for zoom and pan
InitView ==
    /\ zoom = 100
    /\ pan = Origin
    /\ isPanning = FALSE
    /\ lastMousePosRef = NoPosition
    /\ lastTouchRef = NoPosition
    /\ lastPinchDistRef = NoDistance
    /\ touches = 0

Init == InitEditor /\ InitView /\ InitJobs /\ InitService /\ refReads = {}

\* --------------------------------------------- the editing session

NextEditor ==
    \/ AddElement
    \/ AddPreset
    \/ ArmDrawingTool
    \/ DuplicateElement
    \/ RemoveElement
    \/ PinPointerDown
    \/ CanvasPointerDown
    \/ CanvasPointerMove
    \/ CanvasPointerUp
    \/ SetDrawingMode
    \/ Undo
    \/ Redo

\* The session once the key check has passed and a first image is loaded:
\* the state CheckKey, UploadImage, ReaderLoadEnd lead to.
SessionReady ==
    /\ InitEditor!1 /\ InitEditor!2 /\ InitEditor!3 /\ InitEditor!4 /\ InitEditor!5
    /\ uploadedImage = TRUE
    /\ imagePreview = TRUE
    /\ readerPending = FALSE
    /\ dragState = NoDrag
    /\ drawingMode = "line"
    /\ isDrawing = FALSE
    /\ tempLine = NoLine
    /\ tempPath = << >>
    /\ nextId = 1
    /\ edits = 0
    /\ preGraph = << >>
    /\ undoBase = NoState
    /\ undoRedo = FALSE
    /\ clearedFuture = FALSE
    /\ hasApiKey = TRUE
    /\ isCheckingKey = FALSE
    /\ mode = "image"
    /\ isVideoUnlocked = FALSE
    /\ aspectRatio = "Original"
    /\ imageDimensions = NoDimensions
    /\ imageLoading = TRUE
    /\ renderHistory = << >>
    /\ activeRenderId = NoId
    /\ isGenerating = FALSE
    /\ globalError = Null
    /\ pipelines = {}
    /\ nextJobId = 1
    /\ conversions = [m \in {"image", "video"} |-> 0]
    /\ lastFail = NoFail
    /\ InitService
    /\ InitView
    /\ refReads = {}

InitSession == SessionReady /\ lastOp = "readerLoadEnd"

SpecEditor == InitSession /\ [][NextEditor]_vars

\* ------------------------------------------------- generation orchestrator

\* err.message of what the detached block catches: the service's own errors,
\* the remote API's, and "" for a rejection that carries no message (a
\* FileReader or Image error event).
ErrorMessages ==
    { "",
      "got status: 403 PERMISSION_DENIED",
      "Image generation failed. No image data received." }

\* message.includes(needle), tabulated over the messages of ErrorMessages,
\* ApiErrors and FetchErrors
Includes(message, needle) ==
    CASE needle = "403" -> message \in {"got status: 403 PERMISSION_DENIED"}
      [] needle = "Permission denied" -> FALSE
      [] needle = "PERMISSION_DENIED" -> message \in {"got status: 403 PERMISSION_DENIED"}
      [] needle = "API_KEY environment variable is not set" ->
             message \in {"API_KEY environment variable is not set"}
      [] needle = "503" -> message \in {"got status: 503 UNAVAILABLE"}
      [] needle = "overloaded" ->
             message \in {"The model is overloaded. Please try again later."}
      [] needle = "UNAVAILABLE" -> message \in {"got status: 503 UNAVAILABLE"}
      [] OTHER -> FALSE

\* A catch block without the permission test.
IsPermissionErrorNever(message) == FALSE

\* The catch block's two credential tests
IsPermissionError(message) ==
    message # "" /\ (Includes(message, "403") \/ Includes(message, "Permission denied")
                       \/ Includes(message, "PERMISSION_DENIED"))
IsKeyMissingError(message) ==
    ~IsPermissionError(message)
    /\ Includes(message, "API_KEY environment variable is not set")

\* The catch block's errorMessage
SurfacedMessage(message) ==
    IF IsPermissionError(message) THEN "Permission Denied. Please select a valid API Key."
    ELSE IF IsKeyMissingError(message)
         THEN "API Configuration Error: API Key missing. Please select one."
    ELSE IF message = "" THEN "An unknown error occurred."
    ELSE message

\* A catch block that shows the message of every failure.
FailureAlwaysOnView(capturedActiveRenderId, tempId) == TRUE

\* The catch block's `activeRenderId === tempId`: activeRenderId is the value
\* handleGenerate's closure captured when it was created (the render before
\* the click), tempId the id the call made up.
FailureIsOnView(capturedActiveRenderId, tempId) == capturedActiveRenderId = tempId

\* An update that ignores the id and rewrites every item.
MarksEveryItem(items, id, status, url) ==
    [ i \in 1..Len(items) |-> [items[i] EXCEPT !.status = status, !.url = url] ]

\* prev.map(item => item.id === tempId ? {...item, url, status} : item); the
\* failure update passes the item's own url.
UpdateItem(items, id, status, url) ==
    [ i \in 1..Len(items) |->
        IF items[i].id = id
        THEN [items[i] EXCEPT !.status = status,
                              !.url = IF status = "completed" THEN url ELSE items[i].url]
        ELSE items[i] ]

RECURSIVE WithoutItem(_, _)
\* prev.filter(item => item.id !== id)
WithoutItem(items, id) ==
    IF items = << >> THEN << >>
    ELSE IF Head(items).id = id THEN WithoutItem(Tail(items), id)
         ELSE << Head(items) >> \o WithoutItem(Tail(items), id)

ItemIds(items) == { items[i].id : i \in 1..Len(items) }
PendingItems(items) == { i \in 1..Len(items) : items[i].status = "pending" }

\* A service that resolves with nothing.
ResultUrlMissing(type) == "null"

\* What the service resolves with: a data URL for an image, an object URL for
\* a video.
ResultUrl(type) == IF type = "video" THEN "blob:video" ELSE "data:image/png;base64"
NoUrl == "null"

\* An insert at the tail of the history.
AppendItem(item, items) == items \o << item >>

\* setRenderHistory(prev => [newHistoryItem, ...prev])
PrependItem(item, items) == << item >> \o items

\* ------------------------------------------------------------ the prompt

\* Buckets whose limits 35 and 65 belong to the outer buckets.
GetPositionDescriptionInclusive(x, y) ==
    LET v == IF y <= 35 THEN "top" ELSE IF y >= 65 THEN "bottom" ELSE "middle"
        h == IF x <= 35 THEN "left" ELSE IF x >= 65 THEN "right" ELSE "center" IN
    IF v = "middle" /\ h = "center" THEN "exact center"
    ELSE IF v = "middle" THEN h \o " area"
    ELSE IF h = "center" THEN v \o " area"
    ELSE v \o " " \o h \o " area"

\* getPositionDescription
GetPositionDescription(x, y) ==
    LET v == IF y < 35 THEN "top" ELSE IF y > 65 THEN "bottom" ELSE "middle"
        h == IF x < 35 THEN "left" ELSE IF x > 65 THEN "right" ELSE "center" IN
    IF v = "middle" /\ h = "center" THEN "exact center"
    ELSE IF v = "middle" THEN h \o " area"
    ELSE IF h = "center" THEN v \o " area"
    ELSE v \o " " \o h \o " area"

\* constructFullPrompt: the pose prefix of a point element
PosePrefix(el) ==
    IF el.type = "person" /\ el.pose # NoString /\ el.pose # "auto"
    THEN IF el.pose = "standing" THEN "standing "
         ELSE IF el.pose = "sitting" THEN "sitting "
         ELSE IF el.pose = "lying" THEN "lying down "
         ELSE ""
    ELSE ""

\* A description that writes the label of a point element as it was typed.
BaseDescriptionKeepsCase(el) ==
    IF el.points # NoPoints
    THEN "a curved " \o ToLowerCase(el.subtype)
             \o " following the exact path of the white guide line ("
             \o (IF el.lightingPosition = "back"
                 THEN "backlighting/cove lighting hidden behind the structure"
                 ELSE "direct surface installation")
             \o ")"
    ELSE IF el.endX # Undef /\ el.endY # Undef
    THEN "a linear " \o ToLowerCase(el.subtype) \o " ("
             \o (IF el.lightingPosition = "back" THEN "backlighting/cove lighting"
                 ELSE "direct surface installation")
             \o ") installed strictly along the white guide line"
    ELSE "a " \o PosePrefix(el) \o el.subtype \o " placed "
             \o GetPositionDescription(el.x, el.y)

\* constructFullPrompt: desc before the clauses appended to it
BaseDescription(el) ==
    IF el.points # NoPoints
    THEN "a curved " \o ToLowerCase(el.subtype)
             \o " following the exact path of the white guide line ("
             \o (IF el.lightingPosition = "back"
                 THEN "backlighting/cove lighting hidden behind the structure"
                 ELSE "direct surface installation")
             \o ")"
    ELSE IF el.endX # Undef /\ el.endY # Undef
    THEN "a linear " \o ToLowerCase(el.subtype) \o " ("
             \o (IF el.lightingPosition = "back" THEN "backlighting/cove lighting"
                 ELSE "direct surface installation")
             \o ") installed strictly along the white guide line"
    ELSE "a " \o PosePrefix(el) \o ToLowerCase(el.subtype) \o " placed "
             \o GetPositionDescription(el.x, el.y)

KelvinClause(el) ==
    IF el.type = "lighting" /\ HasColorTemperature(el)
    THEN " (Light Color Temperature strictly: " \o ToString(el.colorTemperature)
             \o " Kelvin)"
    ELSE ""

ReferenceClause(el, refImageIndex) ==
    " (Use the provided reference image #" \o ToString(refImageIndex)
        \o " for the visual style, color, and details of this " \o el.subtype \o ")"

\* A numbering that counts every element, with or without a reference image.
ReferenceNumberByPosition(elements, i) == i

\* constructFullPrompt: the value of refImageIndex after the increment made
\* for element i, i.e. the reference-bearing elements up to and including i
ReferenceNumber(elements, i) ==
    Cardinality({ j \in 1..i : HasReferenceImage(elements[j]) })

\* constructFullPrompt: the descriptions of the processed elements
Descriptions(elements) ==
    [ i \in 1..Len(elements) |->
        BaseDescription(elements[i]) \o KelvinClause(elements[i])
            \o (IF HasReferenceImage(elements[i])
                THEN ReferenceClause(elements[i], ReferenceNumber(elements, i))
                ELSE "") ]

StrayLightClause ==
    "CRITICAL INSTRUCTION: The input image has been digitally annotated with bright WHITE LINES. These lines MARK THE EXACT POSITION of the LED profiles. You must transform these specific white lines into photorealistic LED light fixtures. DO NOT create new lights where there are no white lines. The white lines are the only source of new lighting."

\* constructFullPrompt: hasLed
HasLed(elements) ==
    \E i \in 1..Len(elements) : StringIncludes(elements[i].subtype, "LED")

\* constructFullPrompt: the enhancements array
Enhancements(settings, generationMode, elements) ==
    << IF settings.mood = "Original"
       THEN "Maintain original lighting, atmosphere, time of day and color grading of the source image"
       ELSE "Atmosphere: " \o settings.mood >>
    \o (IF settings.profLighting
        THEN << "Professional cinematic lighting, global illumination" >> ELSE << >>)
    \o (IF settings.profLandscaping
        THEN << "Professional landscape architecture, lush vegetation" >> ELSE << >>)
    \o (IF settings.preserveLighting
        THEN << "Strictly preserve the original quantity, position, and style of all existing light fixtures, lamps, and chandeliers. Do not add or remove lighting fixtures" >>
        ELSE << >>)
    \o (IF settings.preserveView
        THEN << "Keep the original external landscape views seen through windows and doors exactly as they appear in the source image. Do not alter the outside scenery" >>
        ELSE << >>)
    \o (IF settings.preserveBranding
        THEN << "Strictly preserve all original signage, text, logos, branding, and street signs visible in the image. Do not distort text or logos" >>
        ELSE << >>)
    \o (IF Trim(settings.customPreservation) # ""
        THEN << "Do not alter the following characteristics: "
                    \o Trim(settings.customPreservation) >>
        ELSE << >>)
    \o (IF Len(elements) > 0
        THEN << "Include exactly: " \o Join(Descriptions(elements), ", ") >>
                 \o (IF HasLed(elements) THEN << StrayLightClause >> ELSE << >>)
        ELSE << >>)
    \o (IF generationMode = "video"
        THEN << "Cinematic camera movement, high quality architectural animation" >>
        ELSE << >>)

\* constructFullPrompt
ConstructFullPrompt(settings, generationMode, elements) ==
    (IF Trim(settings.prompt) = "" THEN "Architectural scene" ELSE Trim(settings.prompt))
        \o ". " \o Join(Enhancements(settings, generationMode, elements), ". ")
        \o ". High quality, photorealistic, 8k."

RECURSIVE SelectReferences(_)
\* handleGenerate: elementsWithRefs mapped through extractBase64Data
SelectReferences(elements) ==
    IF Len(elements) = 0 THEN << >>
    ELSE (IF HasReferenceImage(Head(elements))
          THEN << ExtractBase64Data(Head(elements).referenceImage) >> ELSE << >>)
         \o SelectReferences(Tail(elements))

\* handleGenerate: hasLinearLights
HasLinearLights(elements) ==
    \E i \in 1..Len(elements) :
        elements[i].subtype = "LED Strip" \/ elements[i].subtype = "LED Profile"

\* The controls' state as the App component starts with it
DefaultSettings ==
    [ prompt |-> "", mood |-> "Original", profLighting |-> FALSE,
      profLandscaping |-> FALSE, preserveLighting |-> FALSE, preserveView |-> FALSE,
      preserveBranding |-> FALSE, customPreservation |-> "" ]

\* The sizes img.onload can report: landscape, portrait, square
Dimensions ==
    { [width |-> 1920, height |-> 1080], [width |-> 1080, height |-> 1920],
      [width |-> 1000, height |-> 1000] }

\* resolveAspectRatio: supportedRatios, the values times 10000
SupportedRatios ==
    << [key |-> "1:1", value |-> 10000], [key |-> "3:4", value |-> 7500],
       [key |-> "4:3", value |-> 13300], [key |-> "9:16", value |-> 5625],
       [key |-> "16:9", value |-> 17770] >>

\* Math.abs(curr.value - ratio) for ratio = width / height, times
\* 10000 * height
RatioDistance(entry, dims) ==
    LET d == entry.value * dims.height - 10000 * dims.width IN
    IF d < 0 THEN 0 - d ELSE d

RECURSIVE ClosestRatio(_, _, _)
\* supportedRatios.reduce((prev, curr) => |curr - ratio| < |prev - ratio| ? curr : prev)
\* from entry i on, prev being the accumulator
ClosestRatio(prev, i, dims) ==
    IF i > Len(SupportedRatios) THEN prev
    ELSE ClosestRatio(IF RatioDistance(SupportedRatios[i], dims) < RatioDistance(prev, dims)
                      THEN SupportedRatios[i] ELSE prev,
                      i + 1, dims)

\* A resolution that hands the chosen ratio on whatever the mode.
ResolveAspectRatioAsChosen(generationMode, ratio, dims) == ratio

\* resolveAspectRatio
ResolveAspectRatio(generationMode, ratio, dims) ==
    IF generationMode = "video"
    THEN IF ratio = "16:9" \/ ratio = "9:16" THEN ratio
         ELSE IF dims # NoDimensions /\ dims.height > dims.width THEN "9:16"
         ELSE "16:9"
    ELSE IF ratio # "Original" THEN ratio
    ELSE IF dims # NoDimensions
         THEN ClosestRatio(SupportedRatios[1], 2, dims).key
         ELSE "16:9"

\* handleGenerate: targetVideoRatio
TargetVideoRatio(resolvedRatio) == IF resolvedRatio = "9:16" THEN "9:16" ELSE "16:9"

\* generateVideoFromImage: validAspectRatio
ValidAspectRatio(ratio) == IF ratio # "16:9" /\ ratio # "9:16" THEN "16:9" ELSE ratio

\* The aspectRatio of the config the remote call is made with:
\* generateVideos gets validAspectRatio of targetVideoRatio, generateContent
\* gets resolvedRatio.
OutboundAspectRatio(generationMode, ratio, dims) ==
    LET resolvedRatio == ResolveAspectRatio(generationMode, ratio, dims) IN
    IF generationMode = "video"
    THEN ValidAspectRatio(TargetVideoRatio(resolvedRatio))
    ELSE resolvedRatio

\* What handleGenerate prepares from the values its closure holds: the
\* prompt, the reference list, whether the guide compositor runs, and the
\* elements all three were computed from.
PreparedRequest(settings, generationMode, elements) ==
    [ fullPrompt |-> ConstructFullPrompt(settings, generationMode, elements),
      referenceImagesBase64 |-> SelectReferences(elements),
      composited |-> HasLinearLights(elements),
      elements |-> elements ]

\* handleGenerate up to the start of the detached block, on the App state.
\* The Generate button is disabled while isGenerating or without an uploaded
\* image.
GenerateEffectsWith(settings) ==
    /\ UIVisible
    /\ ~isGenerating
    /\ uploadedImage
    /\ nextJobId <= MaxJobs
    /\ LET tempId == nextJobId
           newHistoryItem == [ id |-> tempId, url |-> NoUrl, type |-> mode,
                               thumbnail |-> imagePreview, status |-> "pending" ] IN
       /\ renderHistory' = PrependItem(newHistoryItem, renderHistory)
       /\ activeRenderId' = tempId
       /\ pipelines' = pipelines \cup
             { [id |-> tempId, type |-> mode, capturedActiveRenderId |-> activeRenderId,
                request |-> PreparedRequest(settings, mode, sceneElements),
                aspectRatio |-> OutboundAspectRatio(mode, aspectRatio, imageDimensions)] }
    /\ isGenerating' = TRUE
    /\ globalError' = Null
    /\ nextJobId' = nextJobId + 1
    /\ lastOp' = "submit"
    /\ lastFail' = NoFail
    /\ UNCHANGED refReads
    /\ UNCHANGED << sceneElements, selectedElementId, history, future, activeDrawingTool,
                    ImageVars, SceneEditorLocals, nextId, edits, preGraph, undoBase,
                    undoRedo, clearedFuture,
                    hasApiKey, isCheckingKey, mode, ratioVars, conversions >>

\* handleGenerate with the controls as the App component starts with them
GenerateEffects == GenerateEffectsWith(DefaultSettings)

\* The controls' state at a click on Generate: untouched, or every option
\* set and the text fields filled in with spaces around the text
PromptSettings ==
    { DefaultSettings,
      [ prompt |-> " Villa ", mood |-> "Sunset", profLighting |-> TRUE,
        profLandscaping |-> TRUE, preserveLighting |-> TRUE, preserveView |-> TRUE,
        preserveBranding |-> TRUE, customPreservation |-> " red door " ] }

\* handleGenerate with the controls in either state, the outcome of its
\* detached block left open
GenerateWithSettings ==
    (\E settings \in PromptSettings : GenerateEffectsWith(settings))
        /\ UNCHANGED serviceVars

\* handleGenerate, the outcome of its detached block left open
Generate == GenerateEffects /\ UNCHANGED serviceVars

\* The detached block's success path and its finally, for the block of
\* pipeline p resolved with url.
SucceedEffects(p, url) ==
    /\ renderHistory' = UpdateItem(renderHistory, p.id, "completed", url)
    /\ pipelines' = pipelines \ {p}
    /\ isGenerating' = FALSE
    /\ lastOp' = "other"
    /\ lastFail' = NoFail
    /\ UNCHANGED refReads
    /\ UNCHANGED << sceneElements, selectedElementId, history, future, activeDrawingTool,
                    ImageVars, SceneEditorLocals, nextId, edits, preGraph, undoBase,
                    undoRedo, clearedFuture,
                    hasApiKey, isCheckingKey, mode, ratioVars, activeRenderId, globalError,
                    nextJobId, conversions >>

PipelineSucceeds ==
    /\ \E p \in pipelines : SucceedEffects(p, ResultUrl(p.type))
    /\ UNCHANGED serviceVars

\* A catch block that leaves the item as it is.
FailedStatusLeftPending == "pending"

\* status: 'failed' of the catch block's update
FailedStatus == "failed"

\* The detached block's catch and its finally, for the block of pipeline p
\* rejected with an error of the given message. With the key flag dropped App
\* renders the key prompt, which unmounts SceneEditor.
FailEffects(p, message) ==
    LET revoked == IsPermissionError(message) \/ IsKeyMissingError(message)
        surfaced == FailureIsOnView(p.capturedActiveRenderId, p.id) IN
    /\ hasApiKey' = IF revoked THEN FALSE ELSE hasApiKey
    /\ IF revoked /\ hasApiKey THEN FreshLocals ELSE UNCHANGED SceneEditorLocals
    /\ renderHistory' = UpdateItem(renderHistory, p.id, FailedStatus, NoUrl)
    /\ globalError' = IF surfaced THEN SurfacedMessage(message) ELSE globalError
    /\ pipelines' = pipelines \ {p}
    /\ lastFail' = [ wasActive |-> (activeRenderId = p.id),
                     message |-> SurfacedMessage(message),
                     errorBefore |-> globalError ]
    /\ isGenerating' = FALSE
    /\ lastOp' = "fail"
    /\ UNCHANGED refReads
    /\ UNCHANGED << sceneElements, selectedElementId, history, future, activeDrawingTool,
                    ImageVars, nextId, edits, preGraph, undoBase, undoRedo, clearedFuture,
                    isCheckingKey, mode, ratioVars, activeRenderId, nextJobId, conversions >>

PipelineFails ==
    /\ \E p \in pipelines, message \in ErrorMessages : FailEffects(p, message)
    /\ UNCHANGED serviceVars

\* handleSelectHistoryItem
SelectHistoryItem ==
    /\ UIVisible
    /\ \E i \in 1..Len(renderHistory) :
         /\ activeRenderId' = renderHistory[i].id
         /\ mode' = renderHistory[i].type
    /\ UNCHANGED ratioVars
    /\ globalError' = Null
    /\ lastOp' = "other"
    /\ lastFail' = NoFail
    /\ UNCHANGED << sceneElements, selectedElementId, history, future, activeDrawingTool,
                    ImageVars, SceneEditorLocals, nextId, edits, preGraph, undoBase,
                    undoRedo, clearedFuture,
                    hasApiKey, isCheckingKey, renderHistory, isGenerating, flightVars >>

\* A delete that filters the history and leaves the active id alone.
DeleteHistoryItemKeepsActive ==
    /\ UIVisible
    /\ \E id \in ItemIds(renderHistory) :
         /\ renderHistory' = WithoutItem(renderHistory, id)
         /\ UNCHANGED << activeRenderId, globalError >>
    /\ lastOp' = "other"
    /\ lastFail' = NoFail
    /\ UNCHANGED << sceneElements, selectedElementId, history, future, activeDrawingTool,
                    ImageVars, SceneEditorLocals, nextId, edits, preGraph, undoBase,
                    undoRedo, clearedFuture,
                    hasApiKey, isCheckingKey, mode, ratioVars, isGenerating, flightVars >>

\* handleDeleteHistoryItem
DeleteHistoryItem ==
    /\ UIVisible
    /\ \E id \in ItemIds(renderHistory) :
         /\ renderHistory' = WithoutItem(renderHistory, id)
         /\ IF activeRenderId = id
            THEN activeRenderId' = NoId /\ globalError' = Null
            ELSE UNCHANGED << activeRenderId, globalError >>
    /\ lastOp' = "other"
    /\ lastFail' = NoFail
    /\ UNCHANGED << sceneElements, selectedElementId, history, future, activeDrawingTool,
                    ImageVars, SceneEditorLocals, nextId, edits, preGraph, undoBase,
                    undoRedo, clearedFuture,
                    hasApiKey, isCheckingKey, mode, ratioVars, isGenerating, flightVars >>

\* The item the viewer shows with its "animate this" / "use as base" buttons:
\* the active item, when it is a finished image.
ViewedImage(i) ==
    /\ renderHistory[i].id = activeRenderId
    /\ renderHistory[i].status = "completed"
    /\ renderHistory[i].url # NoUrl
    /\ renderHistory[i].type = "image"

\* handleUseResultAsInput up to `await base64ToFile(...)`
UseResultAsInput ==
    /\ UIVisible
    /\ conversions["image"] + conversions["video"] < MaxConversions
    /\ \E i \in 1..Len(renderHistory) : ViewedImage(i)
    /\ \E targetMode \in {"image", "video"} :
         conversions' = [conversions EXCEPT ![targetMode] = @ + 1]
    /\ isGenerating' = TRUE
    /\ lastOp' = "other"
    /\ lastFail' = NoFail
    /\ UNCHANGED serviceVars
    /\ UNCHANGED refReads
    /\ UNCHANGED << sceneElements, selectedElementId, history, future, activeDrawingTool,
                    ImageVars, SceneEditorLocals, nextId, edits, preGraph, undoBase,
                    undoRedo, clearedFuture,
                    hasApiKey, isCheckingKey, mode, ratioVars, renderHistory, activeRenderId,
                    globalError, pipelines, nextJobId >>

\* handleUseResultAsInput after the await: handleImageUpload(file) and
\* setMode(targetMode), then the finally.
UseResultLoaded ==
    /\ \E targetMode \in {"image", "video"} :
         /\ conversions[targetMode] > 0
         /\ conversions' = [conversions EXCEPT ![targetMode] = @ - 1]
         /\ mode' = targetMode
    /\ UNCHANGED ratioVars
    /\ ImageUploadEffects(FALSE)
    /\ ToolDisarmed
    /\ isGenerating' = FALSE
    /\ lastOp' = "other"
    /\ lastFail' = NoFail
    /\ UNCHANGED serviceVars
    /\ UNCHANGED viewVars
    /\ UNCHANGED refReads
    /\ UNCHANGED << imagePreview, dragState, nextId, edits, preGraph, undoBase, undoRedo,
                    clearedFuture, hasApiKey, isCheckingKey, pipelines, nextJobId >>

\* handleUseResultAsInput when base64ToFile rejects: the catch, then the finally.
UseResultRejected ==
    /\ \E targetMode \in {"image", "video"} :
         /\ conversions[targetMode] > 0
         /\ conversions' = [conversions EXCEPT ![targetMode] = @ - 1]
    /\ globalError' = "Failed to process generated image as input."
    /\ isGenerating' = FALSE
    /\ lastOp' = "other"
    /\ lastFail' = NoFail
    /\ UNCHANGED serviceVars
    /\ UNCHANGED refReads
    /\ UNCHANGED << sceneElements, selectedElementId, history, future, activeDrawingTool,
                    ImageVars, SceneEditorLocals, nextId, edits, preGraph, undoBase,
                    undoRedo, clearedFuture,
                    hasApiKey, isCheckingKey, mode, ratioVars, renderHistory, activeRenderId,
                    pipelines, nextJobId >>

NextJobs ==
    \/ CheckKey
    \/ SelectKey
    \/ UploadImage
    \/ ReplaceImage
    \/ ReaderLoadEnd
    \/ ClearImage
    \/ Generate
    \/ PipelineSucceeds
    \/ PipelineFails
    \/ SelectHistoryItem
    \/ DeleteHistoryItem
    \/ UseResultAsInput
    \/ UseResultLoaded
    \/ UseResultRejected

SpecJobs == Init /\ [][NextJobs]_vars

\* --------------------------------------------------------- remote service

\* Arguments of the service's own retryWithBackoff calls
VideoRequestRetries == 5
VideoRequestDelay == 3000
PollingRetries == 5
PollingDelay == 3000
DownloadRetries == 3
DownloadDelay == 1000
ImageRequestRetries == 3
ImageRequestDelay == 2000

\* Arguments explored for a retryWithBackoff call of any caller
RetryCounts == 0..MaxRetries
BaseDelays == {1000, 2000}

\* What a remote call can reject with: the SDK's API errors, by the fields
\* the catch block reads.
ApiErrors ==
    { [status |-> 503, code |-> Undef, message |-> ""],
      [status |-> Undef, code |-> 503, message |-> ""],
      [status |-> Undef, code |-> Undef,
       message |-> "The model is overloaded. Please try again later."],
      [status |-> Undef, code |-> Undef, message |-> "got status: 503 UNAVAILABLE"],
      [status |-> 429, code |-> 429, message |-> "got status: 429 RESOURCE_EXHAUSTED"],
      [status |-> 403, code |-> 403, message |-> "got status: 403 PERMISSION_DENIED"],
      [status |-> Undef, code |-> Undef,
       message |-> "API_KEY environment variable is not set"] }

\* fetch rejects only when no response arrives.
FetchErrors == { [status |-> Undef, code |-> Undef, message |-> "Failed to fetch"] }

\* fetch resolves with the server's Response whatever its status.
ResponseStatuses == {200, 404, 503}
ResponseOk(status) == status \in 200..299

\* retryWithBackoff's isOverloaded
IsOverloaded(e) ==
    \/ e.status = 503
    \/ e.code = 503
    \/ /\ e.message # ""
       /\ \/ Includes(e.message, "503")
          \/ Includes(e.message, "overloaded")
          \/ Includes(e.message, "UNAVAILABLE")

\* A catch that retries whatever the error.
ShouldRetryAnyError(retriesLeft, e) == retriesLeft > 0

\* retryWithBackoff's `retries > 0 && isOverloaded`
ShouldRetry(retriesLeft, e) == retriesLeft > 0 /\ IsOverloaded(e)

\* delay * 2, the delay of the recursive call
NextDelay(ms) == ms * 2

RECURSIVE Pow2(_)
Pow2(k) == IF k = 0 THEN 1 ELSE 2 * Pow2(k - 1)

OrchestratorVars == << hasApiKey, isCheckingKey, mode, ratioVars, renderHistory, activeRenderId,
                       isGenerating, globalError, pipelines, nextJobId, conversions,
                       refReads, lastFail >>

\* retryWithBackoff(operation, n, d, name) up to the first `await operation()`
BeginRetry(name, n, d) ==
    /\ operationName' = name
    /\ retries' = n
    /\ delay' = d
    /\ retries0' = n
    /\ delay0' = d
    /\ attempts' = 1
    /\ waits' = << >>
    /\ error' = NoError
    /\ retryResult' = "none"
    /\ pc' = "invoke"

\* The service call settles.
Resolves ==
    /\ pc' = "settled"
    /\ serviceResult' = "resolved"
    /\ thrownMessage' = ""
Rejects(message) ==
    /\ pc' = "settled"
    /\ serviceResult' = "rejected"
    /\ thrownMessage' = message

\* retryWithBackoff returns the operation's value.
RetryReturns ==
    /\ retryResult' = "returned"
    /\ UNCHANGED << operationName, retries, delay, error, retries0, delay0, attempts, waits >>

\* A caller's direct retryWithBackoff(operation, n, d)
CallRetryWithBackoff ==
    /\ pc \in {"idle", "settled"}
    /\ \E n \in RetryCounts, d \in BaseDelays : BeginRetry("Operation", n, d)
    /\ polls' = 0
    /\ operationDone' = FALSE
    /\ responseStatus' = Undef
    /\ serviceResult' = "none"
    /\ thrownMessage' = ""
    /\ UNCHANGED << editorVars, OrchestratorVars >>

\* renderArchitecturalImage up to its await
CallRenderArchitecturalImage ==
    /\ pc \in {"idle", "settled"}
    /\ BeginRetry("Image Generation Request", ImageRequestRetries, ImageRequestDelay)
    /\ polls' = 0
    /\ operationDone' = FALSE
    /\ responseStatus' = Undef
    /\ serviceResult' = "none"
    /\ thrownMessage' = ""
    /\ UNCHANGED << editorVars, OrchestratorVars >>

\* generateVideoFromImage up to its first await
CallGenerateVideoFromImage ==
    /\ pc \in {"idle", "settled"}
    /\ BeginRetry("Video Generation Request", VideoRequestRetries, VideoRequestDelay)
    /\ polls' = 0
    /\ operationDone' = FALSE
    /\ responseStatus' = Undef
    /\ serviceResult' = "none"
    /\ thrownMessage' = ""
    /\ UNCHANGED << editorVars, OrchestratorVars >>

\* The operation rejects and retryWithBackoff's catch runs: it goes on to
\* wait, or rethrows, and no caller in the service catches that.
OperationRejects ==
    /\ pc = "invoke"
    /\ \E e \in (IF operationName = "Video Download" THEN FetchErrors ELSE ApiErrors) :
         /\ error' = e
         /\ IF ShouldRetry(retries, e)
            THEN /\ pc' = "wait"
                 /\ retryResult' = "none"
                 /\ UNCHANGED << serviceResult, thrownMessage >>
            ELSE /\ retryResult' = "thrown"
                 /\ Rejects(e.message)
    /\ UNCHANGED << operationName, retries, delay, polls, operationDone, responseStatus,
                    retries0, delay0,
                    attempts, waits >>
    /\ UNCHANGED << editorVars, OrchestratorVars >>

\* `await wait(delay)` ends and the recursive call invokes the operation.
BackoffWait ==
    /\ pc = "wait"
    /\ waits' = Append(waits, delay)
    /\ retries' = retries - 1
    /\ delay' = NextDelay(delay)
    /\ attempts' = attempts + 1
    /\ pc' = "invoke"
    /\ UNCHANGED << operationName, error, polls, operationDone, responseStatus, serviceResult,
                    thrownMessage, retries0, delay0, retryResult >>
    /\ UNCHANGED << editorVars, OrchestratorVars >>

\* The operation of a direct call resolves.
OperationResolves ==
    /\ pc = "invoke"
    /\ operationName = "Operation"
    /\ RetryReturns
    /\ Resolves
    /\ UNCHANGED << polls, operationDone, responseStatus >>
    /\ UNCHANGED << editorVars, OrchestratorVars >>

\* generateContent resolves; renderArchitecturalImage scans the parts.
ImageRequestResolves ==
    /\ pc = "invoke"
    /\ operationName = "Image Generation Request"
    /\ RetryReturns
    /\ \E hasInlineData \in BOOLEAN :
         IF hasInlineData THEN Resolves
         ELSE Rejects("Image generation failed. No image data received.")
    /\ UNCHANGED << polls, operationDone, responseStatus >>
    /\ UNCHANGED << editorVars, OrchestratorVars >>

\* A loop that polls until the operation carries a download link:
\* `while (!operation.done || !downloadLink)`.
VideoOperationResolvesUntilLink ==
    /\ pc = "invoke"
    /\ operationName \in {"Video Generation Request", "Polling Status"}
    /\ \E done \in BOOLEAN, hasError \in BOOLEAN, hasDownloadLink \in BOOLEAN :
         /\ operationDone' = done
         /\ IF ~done \/ (~hasError /\ ~hasDownloadLink)
            THEN /\ polls < MaxPolls
                 /\ ~hasError /\ ~hasDownloadLink
                 /\ RetryReturns
                 /\ pc' = "pollWait"
                 /\ UNCHANGED << serviceResult, thrownMessage >>
            ELSE IF hasError
            THEN /\ ~hasDownloadLink
                 /\ RetryReturns
                 /\ Rejects("Video generation failed: error")
            ELSE /\ BeginRetry("Video Download", DownloadRetries, DownloadDelay)
                 /\ UNCHANGED << serviceResult, thrownMessage >>
    /\ UNCHANGED << polls, responseStatus >>
    /\ UNCHANGED << editorVars, OrchestratorVars >>

\* generateVideos or getVideosOperation resolves with an operation: not done,
\* the loop waits for the next poll; done, the checks after the loop run and
\* the download starts.
VideoOperationResolves ==
    /\ pc = "invoke"
    /\ operationName \in {"Video Generation Request", "Polling Status"}
    /\ \E done \in BOOLEAN, hasError \in BOOLEAN, hasDownloadLink \in BOOLEAN :
         /\ operationDone' = done
         /\ IF ~done
            THEN /\ polls < MaxPolls
                 /\ ~hasError /\ ~hasDownloadLink
                 /\ RetryReturns
                 /\ pc' = "pollWait"
                 /\ UNCHANGED << serviceResult, thrownMessage >>
            ELSE IF hasError
            THEN /\ ~hasDownloadLink
                 /\ RetryReturns
                 /\ Rejects("Video generation failed: error")
            ELSE IF ~hasDownloadLink
            THEN /\ RetryReturns
                 /\ Rejects("Video generation failed. The model completed the operation but returned no video.")
            ELSE /\ BeginRetry("Video Download", DownloadRetries, DownloadDelay)
                 /\ UNCHANGED << serviceResult, thrownMessage >>
    /\ UNCHANGED << polls, responseStatus >>
    /\ UNCHANGED << editorVars, OrchestratorVars >>

\* A poll that goes on with what the call before it left of its retries
\* and with the delay that call had reached.
PollIntervalSharedBudget ==
    /\ pc = "pollWait"
    /\ polls' = polls + 1
    /\ UNCHANGED operationDone
    /\ BeginRetry("Polling Status", retries, delay)
    /\ UNCHANGED << responseStatus, serviceResult, thrownMessage >>
    /\ UNCHANGED << editorVars, OrchestratorVars >>

\* `await wait(POLLING_INTERVAL_MS)` ends and the loop polls.
PollInterval ==
    /\ pc = "pollWait"
    /\ polls' = polls + 1
    /\ UNCHANGED operationDone
    /\ BeginRetry("Polling Status", PollingRetries, PollingDelay)
    /\ UNCHANGED << responseStatus, serviceResult, thrownMessage >>
    /\ UNCHANGED << editorVars, OrchestratorVars >>

\* fetch resolves with a Response; retryWithBackoff returns it, and the code
\* after it tests response.ok.
DownloadResponds ==
    /\ pc = "invoke"
    /\ operationName = "Video Download"
    /\ RetryReturns
    /\ \E status \in ResponseStatuses :
         /\ responseStatus' = status
         /\ IF ResponseOk(status) THEN Resolves
            ELSE Rejects("Failed to download video")
    /\ UNCHANGED << polls, operationDone >>
    /\ UNCHANGED << editorVars, OrchestratorVars >>

NextService ==
    \/ CallRetryWithBackoff
    \/ CallRenderArchitecturalImage
    \/ CallGenerateVideoFromImage
    \/ OperationRejects
    \/ BackoffWait
    \/ OperationResolves
    \/ ImageRequestResolves
    \/ VideoOperationResolves
    \/ PollInterval
    \/ DownloadResponds

SpecService == Init /\ [][NextService]_vars

\* ------------------------------------------- one generation, end to end

\* switchToVideoMode
SwitchToVideoMode ==
    /\ mode' = "video"
    /\ aspectRatio' = IF imageDimensions # NoDimensions
                         /\ imageDimensions.height > imageDimensions.width
                      THEN "9:16" ELSE "16:9"

\* What the mode buttons leave alone
ModeFrame ==
    /\ lastOp' = "other"
    /\ lastFail' = NoFail
    /\ UNCHANGED << imageDimensions, imageLoading >>
    /\ UNCHANGED << sceneElements, selectedElementId, history, future, activeDrawingTool,
                    ImageVars, SceneEditorLocals, nextId, edits, preGraph, undoBase,
                    undoRedo, clearedFuture,
                    hasApiKey, isCheckingKey, renderHistory, activeRenderId, isGenerating,
                    globalError, flightVars >>

\* The mode buttons: setMode('image'), and handleVideoModeClick, which
\* switches to video once the video mode is unlocked (locked, it opens the
\* unlock form and the mode stays).
SelectMode ==
    /\ UIVisible
    /\ \E m \in {"image", "video"} :
         IF m = "image"
         THEN mode' = "image" /\ UNCHANGED << isVideoUnlocked, aspectRatio >>
         ELSE isVideoUnlocked /\ SwitchToVideoMode /\ UNCHANGED isVideoUnlocked
    /\ ModeFrame

\* const UNLOCK_CODE
UnlockCode == "11075713ALa!"

\* What is typed into the unlock form: the code, or something else
UnlockInputs == { UnlockCode, "0000" }

\* handleUnlockSubmit, on the form handleVideoModeClick opens while the
\* video mode is locked; a wrong code only marks the form.
UnlockSubmit ==
    /\ UIVisible
    /\ ~isVideoUnlocked
    /\ \E unlockInput \in UnlockInputs :
         IF unlockInput = UnlockCode
         THEN isVideoUnlocked' = TRUE /\ SwitchToVideoMode
         ELSE UNCHANGED << mode, isVideoUnlocked, aspectRatio >>
    /\ ModeFrame

\* Controls' availableRatios
AvailableRatios(generationMode) ==
    IF generationMode = "video" THEN { "16:9", "9:16" }
    ELSE { "Original", "16:9", "9:16", "1:1", "4:3", "3:4" }

\* The ratio buttons of the controls: setAspectRatio(r)
SetAspectRatio ==
    /\ UIVisible
    /\ \E r \in AvailableRatios(mode) : aspectRatio' = r
    /\ UNCHANGED << mode, isVideoUnlocked >>
    /\ ModeFrame

\* img.onload of handleImageUpload: setImageDimensions
ImageLoaded ==
    /\ imageLoading
    /\ imageLoading' = FALSE
    /\ \E dims \in Dimensions : imageDimensions' = dims
    /\ lastOp' = "other"
    /\ lastFail' = NoFail
    /\ UNCHANGED << mode, isVideoUnlocked, aspectRatio >>
    /\ UNCHANGED << sceneElements, selectedElementId, history, future, activeDrawingTool,
                    ImageVars, SceneEditorLocals, nextId, edits, preGraph, undoBase,
                    undoRedo, clearedFuture,
                    hasApiKey, isCheckingKey, renderHistory, activeRenderId, isGenerating,
                    globalError, flightVars >>

\* handleGenerate with its detached block started: the block is about to
\* prepare the image (fileToBase64 or processImageWithGuides).
StartPipeline ==
    /\ pc = "idle"
    /\ GenerateEffects
    /\ pc' = "prepare"
    /\ operationName' = "none"
    /\ retries' = 0
    /\ delay' = 0
    /\ error' = NoError
    /\ polls' = 0
    /\ operationDone' = FALSE
    /\ responseStatus' = Undef
    /\ serviceResult' = "none"
    /\ thrownMessage' = ""
    /\ retries0' = 0
    /\ delay0' = 0
    /\ attempts' = 0
    /\ waits' = << >>
    /\ retryResult' = "none"

\* The image preparation settles: read, the block calls the service for the
\* mode the click captured; failed, the FileReader or Image error event
\* rejects the block's await (an event carries no message).
PrepareImage ==
    /\ pc = "prepare"
    /\ \E p \in pipelines, read \in BOOLEAN :
         IF read
         THEN /\ IF p.type = "video"
                 THEN BeginRetry("Video Generation Request", VideoRequestRetries,
                                 VideoRequestDelay)
                 ELSE BeginRetry("Image Generation Request", ImageRequestRetries,
                                 ImageRequestDelay)
              /\ UNCHANGED << serviceResult, thrownMessage >>
         ELSE /\ Rejects("")
              /\ UNCHANGED << operationName, retries, delay, error, retries0, delay0,
                              attempts, waits, retryResult >>
    /\ UNCHANGED << polls, operationDone, responseStatus >>
    /\ UNCHANGED << editorVars, OrchestratorVars >>

\* The block's await settles: the success update or the catch, then the
\* finally.
FinishPipeline ==
    /\ pc = "settled"
    /\ \E p \in pipelines :
         IF serviceResult = "resolved"
         THEN SucceedEffects(p, ResultUrl(p.type))
         ELSE FailEffects(p, thrownMessage)
    /\ pc' = "idle"
    /\ UNCHANGED << operationName, retries, delay, error, polls, operationDone,
                    responseStatus, serviceResult, thrownMessage, retries0, delay0, attempts, waits,
                    retryResult >>

NextPipeline ==
    \/ UnlockSubmit
    \/ SelectMode
    \/ StartPipeline
    \/ PrepareImage
    \/ OperationRejects
    \/ BackoffWait
    \/ ImageRequestResolves
    \/ VideoOperationResolves
    \/ PollInterval
    \/ DownloadResponds
    \/ FinishPipeline
    \/ SelectKey

SpecPipeline == InitSession /\ [][NextPipeline]_vars

\* What the pending awaits of the detached block and of the service do
\* when they settle: the image preparation, the remote calls, the timers
\* of the backoff and of the poll loop, the download, and the block's
\* continuation.
AwaitSettles ==
    \/ PrepareImage
    \/ OperationRejects
    \/ BackoffWait
    \/ ImageRequestResolves
    \/ VideoOperationResolves
    \/ PollInterval
    \/ DownloadResponds
    \/ FinishPipeline

\* Every remote call eventually returns and every timer fires: an await
\* that is pending does settle.  The remote reports done after at most
\* MaxPolls answers of not done.
FairPipeline == SpecPipeline /\ WF_vars(AwaitSettles)

\* -------------------------------------------------- preset quantities

NextPreset ==
    \/ AddTypedPreset
    \/ Undo
    \/ Redo

SpecPreset == InitSession /\ [][NextPreset]_vars

\* ------------------------------------------- attributes and prompts

\* handleGenerate builds the prompt, the reference list and the guide
\* decision from the sceneElements of its own closure (App.tsx 660, 694
\* to 715): what is edited after the click cannot reach the request, so
\* the scene is followed up to the submission only.
BeforeSubmission(edit) == pipelines = {} /\ edit

\* Point elements are added from the custom form, dragged, relabelled,
\* given reference images, temperatures and poses, and a generation is
\* submitted.
NextPrompt ==
    \/ BeforeSubmission(AddCustomElement)
    \/ BeforeSubmission(PinPointerDown)
    \/ BeforeSubmission(CanvasPointerMoveInside)
    \/ BeforeSubmission(CanvasPointerUp)
    \/ BeforeSubmission(UpdateElementDescription)
    \/ BeforeSubmission(SelectGlobalReferenceForElement)
    \/ BeforeSubmission(UpdateElementTemperature)
    \/ BeforeSubmission(UpdateElementPose)
    \/ GenerateWithSettings

SpecPrompt == InitSession /\ [][NextPrompt]_vars

\* Point elements are added and LED strips are drawn, elements are
\* relabelled, and a generation is submitted.
NextGuides ==
    \/ BeforeSubmission(AddCustomElement)
    \/ BeforeSubmission(ArmDrawingTool)
    \/ BeforeSubmission(CanvasPointerDown)
    \/ BeforeSubmission(CanvasPointerMove)
    \/ BeforeSubmission(CanvasPointerUp)
    \/ BeforeSubmission(UpdateElementDescription)
    \/ GenerateWithSettings

SpecGuides == InitSession /\ [][NextGuides]_vars

\* Elements are added from the custom form and every attribute editor of
\* the element card is used on them.
NextAttributes ==
    \/ AddCustomElement
    \/ UpdateElementDescription
    \/ SelectGlobalReferenceForElement
    \/ RemoveElementReferenceImage
    \/ UpdateElementReferenceImage
    \/ ReferenceImageLoaded
    \/ UpdateElementTemperature
    \/ UpdateElementPose
    \/ UpdateLightingPosition

SpecAttributes == InitSession /\ [][NextAttributes]_vars

\* A point element is added and dragged over the bucket limits, and a
\* generation is submitted.
NextPosition ==
    \/ BeforeSubmission(AddCustomElement)
    \/ BeforeSubmission(PinPointerDown)
    \/ BeforeSubmission(CanvasPointerMoveToBucket)
    \/ BeforeSubmission(CanvasPointerUp)
    \/ GenerateWithSettings

SpecPosition == InitSession /\ [][NextPosition]_vars

\* Point elements are added and given reference images, the mode is
\* chosen, and a generation is submitted.
NextReferences ==
    \/ BeforeSubmission(AddCustomElement)
    \/ BeforeSubmission(SelectGlobalReferenceForElement)
    \/ BeforeSubmission(UnlockSubmit)
    \/ BeforeSubmission(SelectMode)
    \/ GenerateWithSettings

SpecReferences == InitSession /\ [][NextReferences]_vars

\* The video mode is unlocked, modes and ratios are chosen, images are
\* replaced and loaded, generations are submitted and finish, and history
\* entries are selected.
NextRatio ==
    \/ UnlockSubmit
    \/ SelectMode
    \/ SetAspectRatio
    \/ ReplaceImage
    \/ ReaderLoadEnd
    \/ ImageLoaded
    \/ Generate
    \/ PipelineSucceeds
    \/ SelectHistoryItem

SpecRatio == InitSession /\ [][NextRatio]_vars

\* The video mode is unlocked and chosen, generations are submitted and
\* finish, history entries are selected and results are used as input.
NextModes ==
    \/ UnlockSubmit
    \/ SelectMode
    \/ Generate
    \/ PipelineSucceeds
    \/ SelectHistoryItem
    \/ UseResultAsInput
    \/ UseResultLoaded
    \/ UseResultRejected
    \/ ReaderLoadEnd

SpecModes == InitSession /\ [][NextModes]_vars

\* ---------------------------------------------------------- the viewport

\* zoom is kept in hundredths (100 is zoom 1, 400 is zoom 4). With the wheel
\* deltas and pinch distances above every zoom value the handlers compute is
\* a whole number of hundredths, so the integer division below is exact.

\* What a navigation handler of the viewport container leaves alone
ViewEvent(op) ==
    /\ EditorMounted
    /\ lastOp' = op
    /\ edits' = edits
    /\ undoBase' = NoState
    /\ undoRedo' = FALSE
    /\ clearedFuture' = FALSE
    /\ UNCHANGED << sceneElements, selectedElementId, history, future, activeDrawingTool,
                    ImageVars, dragState, drawingMode, isDrawing, tempLine, tempPath,
                    nextId, preGraph, jobVars >>

\* Math.min(Math.max(1, z), 4)
ClampZoom(z) == Min(Max(100, z), 400)

\* setPan(prev => ({ x: prev.x + dx, y: prev.y + dy }))
PannedBy(from, to) == [x |-> pan.x + (to.x - from.x), y |-> pan.y + (to.y - from.y)]

WithinMaxPan(p) ==
    p.x >= -MaxPan /\ p.x <= MaxPan /\ p.y >= -MaxPan /\ p.y <= MaxPan

\* handleWheel
Wheel ==
    /\ ViewEvent("wheel")
    /\ \E delta \in WheelDeltas :
         LET newZoom == ClampZoom(zoom + delta) IN
         /\ zoom' = newZoom
         /\ pan' = IF newZoom = 100 THEN Origin ELSE pan
    /\ UNCHANGED << isPanning, lastMousePosRef, lastTouchRef, lastPinchDistRef, touches >>

\* handleMouseDown, for the primary button
MouseDown ==
    /\ ViewEvent("mouseDown")
    /\ \E client \in ViewClients :
         IF activeDrawingTool = NoTool /\ dragState = NoDrag
         THEN isPanning' = TRUE /\ lastMousePosRef' = client
         ELSE UNCHANGED << isPanning, lastMousePosRef >>
    /\ UNCHANGED << zoom, pan, lastTouchRef, lastPinchDistRef, touches >>

\* handleMouseMove
MouseMove ==
    /\ ViewEvent("mouseMove")
    /\ \E client \in ViewClients :
         IF isPanning /\ lastMousePosRef # NoPosition
         THEN /\ WithinMaxPan(PannedBy(lastMousePosRef, client))
              /\ pan' = PannedBy(lastMousePosRef, client)
              /\ lastMousePosRef' = client
         ELSE UNCHANGED << pan, lastMousePosRef >>
    /\ UNCHANGED << zoom, isPanning, lastTouchRef, lastPinchDistRef, touches >>

\* handleMouseUp (also the container's onMouseLeave)
MouseUp ==
    /\ ViewEvent("mouseUp")
    /\ isPanning' = FALSE
    /\ lastMousePosRef' = NoPosition
    /\ UNCHANGED << zoom, pan, lastTouchRef, lastPinchDistRef, touches >>

\* handleTouchStart: one more finger goes down; e.touches then counts the
\* fingers on the surface
TouchStart ==
    /\ ViewEvent("touchStart")
    /\ touches < 2
    /\ touches' = touches + 1
    /\ \E client \in ViewClients, dist \in PinchDistances :
         IF dragState # NoDrag \/ isDrawing
         THEN UNCHANGED << isPanning, lastTouchRef, lastPinchDistRef >>
         ELSE IF touches' = 1
         THEN IF activeDrawingTool = NoTool
              THEN /\ isPanning' = TRUE
                   /\ lastTouchRef' = client
                   /\ UNCHANGED lastPinchDistRef
              ELSE UNCHANGED << isPanning, lastTouchRef, lastPinchDistRef >>
         ELSE /\ isPanning' = FALSE
              /\ lastPinchDistRef' = dist
              /\ UNCHANGED lastTouchRef
    /\ UNCHANGED << zoom, pan, lastMousePosRef >>

\* handleTouchMove
TouchMove ==
    /\ ViewEvent("touchMove")
    /\ touches > 0
    /\ \E client \in ViewClients, dist \in PinchDistances :
         IF dragState # NoDrag \/ isDrawing
         THEN UNCHANGED << zoom, pan, lastTouchRef, lastPinchDistRef >>
         ELSE IF touches = 1 /\ isPanning /\ lastTouchRef # NoPosition
         THEN /\ WithinMaxPan(PannedBy(lastTouchRef, client))
              /\ pan' = PannedBy(lastTouchRef, client)
              /\ lastTouchRef' = client
              /\ UNCHANGED << zoom, lastPinchDistRef >>
         ELSE IF touches = 2 /\ lastPinchDistRef # NoDistance
         THEN /\ zoom' = ClampZoom((zoom * dist) \div lastPinchDistRef)
              /\ lastPinchDistRef' = dist
              /\ UNCHANGED << pan, lastTouchRef >>
         ELSE UNCHANGED << zoom, pan, lastTouchRef, lastPinchDistRef >>
    /\ UNCHANGED << isPanning, lastMousePosRef, touches >>

\* handleTouchEnd: a finger is lifted
TouchEnd ==
    /\ ViewEvent("touchEnd")
    /\ touches > 0
    /\ touches' = touches - 1
    /\ isPanning' = FALSE
    /\ lastTouchRef' = NoPosition
    /\ lastPinchDistRef' = NoDistance
    /\ UNCHANGED << zoom, pan, lastMousePosRef >>

\* handleResetZoom (the button is rendered while zoom > 1)
ResetZoom ==
    /\ ViewEvent("resetZoom")
    /\ zoom > 100
    /\ zoom' = 100
    /\ pan' = Origin
    /\ UNCHANGED << isPanning, lastMousePosRef, lastTouchRef, lastPinchDistRef, touches >>

\* The editor with its navigation: an element is added, pins and the canvas
\* are pressed and released, a drawing tool is armed, and the mouse, the
\* wheel and up to two fingers act on the viewport container.
NextViewport ==
    \/ AddElement
    \/ ArmDrawingTool
    \/ PinPointerDown
    \/ CanvasPointerDown
    \/ CanvasPointerUp
    \/ Wheel
    \/ MouseDown
    \/ MouseMove
    \/ MouseUp
    \/ TouchStart
    \/ TouchMove
    \/ TouchEnd
    \/ ResetZoom

SpecViewport == InitSession /\ [][NextViewport]_vars

\* ------------------------------------------------- image replacement

\* The editor with the image buttons: elements are added, the image is
\* replaced or cleared and uploaded again.
NextImage ==
    \/ AddElement
    \/ RemoveElement
    \/ Undo
    \/ Redo
    \/ UploadImage
    \/ ReplaceImage
    \/ ReaderLoadEnd
    \/ ClearImage

SpecImage == InitSession /\ [][NextImage]_vars

\* ------------------------------------------------------------ history claims

\* The handlers that add or remove an element.
Commits == {"add", "addPreset", "duplicate", "remove", "drawComplete"}
\* The handlers that take a snapshot.
Structural == Commits \cup {"dragStart"}

\* C1: from any reachable state with a non-empty past, undo() then redo()
\* gives back the same scene graph, past stack and future stack; and whenever
\* the session ran an effective undo directly followed by redo, the editor is
\* in the state it had before that undo.
C1_UndoRedoRoundTrip ==
    /\ Len(history) > 0 => RedoResult(UndoResult(EditorState)) = EditorState
    /\ undoRedo => EditorState = undoBase

\* An undo directly followed by redo has run on a non-empty scene.
C1_Witness ==
    /\ undoRedo
    /\ lastOp = "redo"
    /\ sceneElements # << >>
    /\ Len(history) > 0

\* C2: right after a snapshot-taking mutation the future stack is empty and
\* redo() changes nothing, also when the mutation followed undo calls.
C2_MutationClearsFuture ==
    lastOp \in Structural =>
        /\ future = << >>
        /\ RedoResult(EditorState) = EditorState

\* A mutation ran while the future stack was non-empty (after an undo).
C2_Witness ==
    /\ lastOp \in Structural
    /\ clearedFuture
    /\ future = << >>

\* C3: right after each addition or removal, one undo() yields the graph that
\* held just before that addition or removal (for a preset add of several
\* people: the graph just before the last of its additions).
C3_UndoRestoresPreCommitGraph ==
    lastOp \in Commits => UndoResult(EditorState).scene = preGraph


\* ---------------------------------------------------------- job claims

\* C4: in every reachable state at most one entry of the render history is
\* pending.
C4_AtMostOnePending == Cardinality(PendingItems(renderHistory)) <= 1

\* The status steps of one id: none, or pending to completed, or pending to
\* failed.
StatusStep(before, after) ==
    \/ after = before
    \/ before = "pending" /\ after \in {"completed", "failed"}

\* C5: across every step, an entry that keeps its id keeps its status or goes
\* from pending to completed or failed (so a completed or failed entry never
\* changes again), and an entry whose id is new to the history is pending.
C5_StatusMonotonic ==
    [][ \A j \in 1..Len(renderHistory') :
          /\ \A i \in 1..Len(renderHistory) :
                renderHistory[i].id = renderHistory'[j].id
                  => StatusStep(renderHistory[i].status, renderHistory'[j].status)
          /\ renderHistory'[j].id \notin ItemIds(renderHistory)
                  => renderHistory'[j].status = "pending" ]_vars

\* A completed and a failed entry side by side, right after a failure.
C5_Witness ==
    /\ lastOp = "fail"
    /\ \E i, j \in 1..Len(renderHistory) :
          renderHistory[i].status = "completed" /\ renderHistory[j].status = "failed"

\* C6: right after the failure of the job that was the active view, the
\* global error is that failure's message.
C6_ActiveFailureSurfaced ==
    (lastOp = "fail" /\ lastFail.wasActive) => globalError = lastFail.message

\* C7: the failure of a job that is not the active view leaves the global
\* error as it was, and right after a submit the new job is the active view
\* and the global error is clear.
C7_StaleFailureSilent ==
    /\ (lastOp = "fail" /\ ~lastFail.wasActive) => globalError = lastFail.errorBefore
    /\ lastOp = "submit" =>
          /\ renderHistory # << >>
          /\ activeRenderId = Head(renderHistory).id
          /\ Head(renderHistory).status = "pending"
          /\ globalError = Null

\* A job failed while the user was viewing another entry.
C7_Witness ==
    /\ lastOp = "fail"
    /\ ~lastFail.wasActive
    /\ activeRenderId # NoId
    /\ \E i \in 1..Len(renderHistory) :
          renderHistory[i].status = "failed" /\ renderHistory[i].id # activeRenderId

\* ------------------------------------------------------ service claims

\* C8: a retryWithBackoff call that began with n retries and delay d invokes
\* its operation at most n + 1 times; the i-th wait is d * 2^(i-1) and every
\* wait is followed by one more invocation; it waits, and so invokes again,
\* only after a failure isOverloaded accepts; and it rethrows only an error
\* isOverloaded rejects or one met with no retries left, with no wait after it.
C8_RetryBounded ==
    pc # "idle" =>
      /\ attempts <= retries0 + 1
      /\ attempts = Len(waits) + 1
      /\ retries = retries0 - Len(waits)
      /\ \A i \in 1..Len(waits) : waits[i] = delay0 * Pow2(i - 1)
      /\ pc = "wait" => IsOverloaded(error) /\ attempts <= retries0
      /\ (pc = "invoke" /\ attempts > 1) => IsOverloaded(error)
      /\ retryResult = "thrown" => (~IsOverloaded(error) \/ attempts = retries0 + 1)

\* A direct call with two retries used them up: three invocations, waits d
\* and 2d, and the last overload is rethrown.
C8_Witness ==
    /\ operationName = "Operation"
    /\ retryResult = "thrown"
    /\ retries0 = 2
    /\ attempts = 3
    /\ waits = << delay0, 2 * delay0 >>
    /\ IsOverloaded(error)

\* C9: a call rethrows an HTTP 429 failure only once its retries are used
\* up, as it does a 503 failure.
C9_RateLimitRetried ==
    (retryResult = "thrown" /\ error.status = 429) => attempts = retries0 + 1

\* C10: the video call rejects over a download answered with HTTP 503 only
\* after the download was attempted DownloadRetries + 1 times.
C10_DownloadRetried ==
    (serviceResult = "rejected" /\ operationName = "Video Download"
       /\ responseStatus = 503) => attempts = DownloadRetries + 1

\* ----------------------------------------------------- pipeline claims

\* The record of the generation submitted last (nothing deletes records in
\* SpecPipeline).
LatestItem == Head(renderHistory)

\* C11: while the image request of a generation is retried the job's record
\* stays pending, and once the request has succeeded on its third attempt
\* (two transient failures, waits of 2 s and 4 s) the record is completed
\* with the result URL, the busy flag is clear and no global error is set.
C11_RetriedSubmissionCompletes ==
    /\ (operationName = "Image Generation Request" /\ pc \in {"invoke", "wait", "settled"})
          => (LatestItem.status = "pending" /\ globalError = Null)
    /\ ( /\ operationName = "Image Generation Request"
         /\ pc = "idle"
         /\ serviceResult = "resolved"
         /\ attempts = 3 )
          => /\ LatestItem.id = nextJobId - 1
             /\ LatestItem.status = "completed"
             /\ LatestItem.url = "data:image/png;base64"
             /\ globalError = Null
             /\ ~isGenerating

\* The image request failed twice with a 503-class error and then succeeded.
C11_Witness ==
    /\ operationName = "Image Generation Request"
    /\ pc = "idle"
    /\ serviceResult = "resolved"
    /\ attempts = 3
    /\ waits = << ImageRequestDelay, 2 * ImageRequestDelay >>
    /\ error.status = 503
    /\ LatestItem.status = "completed"

\* C12: every pending record has a running pipeline; a settled service call
\* always has its pipeline waiting to handle it; and once no pipeline runs
\* the busy flag is clear and the last job's record is completed (service
\* resolved) or failed (service or image preparation rejected).
C12_PipelineAlwaysSettlesJob ==
    /\ \A i \in 1..Len(renderHistory) :
          renderHistory[i].status = "pending"
            => \E p \in pipelines : p.id = renderHistory[i].id
    /\ pc = "settled" => pipelines # {}
    /\ pipelines = {} => (~isGenerating /\ pc = "idle")
    /\ (pc = "idle" /\ serviceResult = "resolved") => LatestItem.status = "completed"
    /\ (pc = "idle" /\ serviceResult = "rejected") => LatestItem.status = "failed"

\* A video job whose download was refused has been marked failed.
C12_Witness ==
    /\ pc = "idle"
    /\ serviceResult = "rejected"
    /\ operationName = "Video Download"
    /\ LatestItem.status = "failed"
    /\ LatestItem.type = "video"
    /\ ~isGenerating

\* Messages with the permission-denied and the missing-credential signature
CredentialMessages ==
    { "got status: 403 PERMISSION_DENIED", "API_KEY environment variable is not set" }

\* C13: retryWithBackoff never waits on an error with a credential
\* signature; right after a pipeline failed with one, the job is failed and
\* hasApiKey is false; while hasApiKey is false no generation can be
\* submitted; and hasApiKey goes from false to true only in a handleSelectKey
\* step.
C13_CredentialFailureBlocks ==
    /\ [] /\ pc = "wait" => error.message \notin CredentialMessages
          /\ (lastOp = "fail" /\ thrownMessage \in CredentialMessages /\ retryResult = "thrown")
                => (~hasApiKey /\ LatestItem.status = "failed")
          /\ ~hasApiKey => ~ENABLED StartPipeline
    /\ [][ (~hasApiKey /\ hasApiKey') => lastOp' = "selectKey" ]_vars

\* The first attempt met a 403: the key flag is dropped and nothing was retried.
C13_Witness ==
    /\ lastOp = "fail"
    /\ thrownMessage = "got status: 403 PERMISSION_DENIED"
    /\ attempts = 1
    /\ ~hasApiKey
    /\ LatestItem.status = "failed"

\* C14: when the image preparation of a generation has failed, the render
\* history holds no record for that request.
C14_LocalFailureCreatesNoJob ==
    (pc = "settled" /\ serviceResult = "rejected" /\ operationName = "none")
      => \A p \in pipelines : p.id \notin ItemIds(renderHistory)

\* C15: the render history is ordered newest first (ids descend), and right
\* after a submit its head is the new record, pending, without a URL, the
\* active view, with its pipeline still running.
C15_SubmitPrependsPending ==
    /\ \A i, j \in 1..Len(renderHistory) :
          i < j => renderHistory[i].id > renderHistory[j].id
    /\ lastOp = "submit" =>
          /\ renderHistory # << >>
          /\ Head(renderHistory).id = nextJobId - 1
          /\ Head(renderHistory).status = "pending"
          /\ Head(renderHistory).url = NoUrl
          /\ activeRenderId = Head(renderHistory).id
          /\ \E p \in pipelines : p.id = Head(renderHistory).id

\* A submit on top of an older record.
C15_Witness ==
    /\ lastOp = "submit"
    /\ Len(renderHistory) >= 2
    /\ Head(renderHistory).status = "pending"
    /\ activeRenderId = Head(renderHistory).id


\* ------------------------------------------------------------ scene claims

InRange(v) == v >= 0 /\ v <= 100

\* Every coordinate an element carries
Coordinates(el) ==
    {el.x, el.y}
        \cup (IF el.endX = Undef THEN {} ELSE {el.endX})
        \cup (IF el.endY = Undef THEN {} ELSE {el.endY})
        \cup (IF el.points = NoPoints THEN {}
              ELSE UNION { {el.points[i].x, el.points[i].y} :
                           i \in 1..Len(el.points) })

SceneCoordinates == UNION { Coordinates(sceneElements[i]) :
                            i \in 1..Len(sceneElements) }

\* C16: in every reachable state every coordinate of every element of the
\* scene (anchor, end anchor, path points) lies in [0, 100], whatever
\* quantity the preset add was given.
C16_CoordinatesInRange == \A v \in SceneCoordinates : InRange(v)

HasEndAnchor(el) == el.endX # Undef /\ el.endY # Undef
HasPath(el) == el.points # NoPoints

\* C18: every element is exactly one of a point (no end anchor, no path), a
\* straight segment (end anchor, no path) or a freehand path (path of at
\* least two points, no end anchor); no element has both an end anchor and
\* a path.
C18_ExactlyOneGeometry ==
    \A i \in 1..Len(sceneElements) :
        LET el == sceneElements[i] IN
        /\ ~(HasEndAnchor(el) /\ HasPath(el))
        /\ HasPath(el) => Len(el.points) >= 2


\* The element a drag is moving, if the scene still holds it
DraggedElements ==
    { sceneElements[i] : i \in { j \in 1..Len(sceneElements) :
                                   sceneElements[j].id = dragState.id } }

\* getRelativeCoords answers in range for every pointer position explored
ClampedEverywhere ==
    \A client \in StrayClients \cup MoveClients \cup PressClients :
        InRange(GetRelativeCoords(client).x) /\ InRange(GetRelativeCoords(client).y)

\* C17: a pointer position outside the image, however far, is stored as a
\* coordinate clamped to [0, 100], so the element a drag moves stays in
\* range; and the copy made by duplicate has anchor, end anchor and path
\* points of at most 100, also when the original is within 2 of the bound.
C17_DragAndDuplicateClamped ==
    /\ ClampedEverywhere
    /\ dragState # NoDrag =>
          \A el \in DraggedElements : \A v \in Coordinates(el) : InRange(v)
    /\ lastOp = "duplicate" =>
          \A v \in Coordinates(sceneElements[Len(sceneElements)]) : v <= 100

\* A segment whose end was drawn with the pointer outside the image (stored
\* as 100, 99) has been duplicated: the copy's end is held at 100, 100.
C17_Witness ==
    /\ lastOp = "duplicate"
    /\ Len(sceneElements) >= 2
    /\ \E i \in 1..(Len(sceneElements) - 1) :
          /\ sceneElements[i].endX = 100
          /\ sceneElements[i].endY = 99
          /\ sceneElements[Len(sceneElements)].endX = 100
          /\ sceneElements[Len(sceneElements)].endY = 100
          /\ sceneElements[Len(sceneElements)].x = sceneElements[i].x + 2


Geometry(el) == [x |-> el.x, y |-> el.y, endX |-> el.endX, endY |-> el.endY,
                 points |-> el.points]

\* C19: a position update addressed to an element that has a path, through
\* the start or the end handle, leaves that element and the whole scene
\* unchanged; and as long as a path element stays in the scene its geometry
\* is the one it was created with.
C19_PathElementsImmutable ==
    /\ [](\A i \in 1..Len(sceneElements) :
            HasPath(sceneElements[i]) =>
                \A pt \in PressPoints \cup MovePoints, isEndPoint \in BOOLEAN :
                    UpdateElementPosition(sceneElements, sceneElements[i].id,
                                          pt, isEndPoint) = sceneElements)
    /\ [][\A i \in 1..Len(sceneElements), j \in 1..Len(sceneElements') :
            (HasPath(sceneElements[i]) /\ sceneElements'[j].id = sceneElements[i].id)
                => Geometry(sceneElements'[j]) = Geometry(sceneElements[i])]_vars

\* A drag on the pin of a freehand element has received a pointer move.
C19_Witness ==
    /\ dragState # NoDrag
    /\ lastOp = "other"
    /\ \E el \in DraggedElements : HasPath(el) /\ Len(el.points) >= 2


\* A drag whose snapshot is on top of the past stack
DragSnapshotOnTop ==
    /\ dragState # NoDrag
    /\ Len(history) > 0
    /\ history[Len(history)] = preGraph

\* C20: a press on a pin handle pushes the graph as it was before the press,
\* and changes no coordinate; the pointer moves and the release of that drag
\* push nothing further; so after any number of moves one undo gives back
\* the graph, with every coordinate, as it was before the press.
C20_OneSnapshotPerDrag ==
    /\ [][lastOp' = "dragStart" =>
            /\ history' = Append(history, sceneElements)
            /\ sceneElements' = sceneElements
            /\ preGraph' = sceneElements
            /\ DragSnapshotOnTop']_vars
    /\ [][(DragSnapshotOnTop /\ lastOp' = "other") =>
            /\ history' = history
            /\ UndoResult(EditorState').scene = preGraph]_vars

\* A drag has moved an element away from its position at the press, and
\* one undo would put the graph of the press back.
C20_Witness ==
    /\ DragSnapshotOnTop
    /\ lastOp = "other"
    /\ sceneElements # preGraph
    /\ Len(sceneElements) = Len(preGraph)
    /\ UndoResult(EditorState).scene = preGraph


\* The handlers behind the attribute editors of an element card
AttributeOps ==
    { "temperature", "pose", "lightingPosition", "description",
      "selectReference", "removeReference", "uploadReference",
      "referenceLoaded" }

\* C21: an in-place attribute edit (temperature, pose, install side,
\* label, reference image) leaves the past stack and the future stack as
\* they were; snapshots are pushed by add, remove, drag start and draw
\* completion only.
C21_AttributeEditsKeepStacks ==
    [][lastOp' \in AttributeOps =>
            (history' = history /\ future' = future)]_vars


\* C22: after an image-replacement action or an image-clear action the
\* scene graph is empty and the selection is cleared.
C22_ImageChangeEmptiesScene ==
    lastOp \in {"replace", "clearImage"} =>
        (sceneElements = << >> /\ selectedElementId = NoId)


\* handlePointerUp ends a draw
DrawRelease ==
    /\ isDrawing
    /\ activeDrawingTool # NoTool
    /\ ~isDrawing'
    /\ lastOp' \in {"drawComplete", "drawDiscard"}

\* C25: releasing the pointer while drawing in line mode adds exactly one
\* element, whose anchor is the press point and whose end anchor is the
\* last pointer position, pushes the graph as it was before the addition
\* onto the past stack, ends the drawing state and disarms the tool.
C25_LineReleaseCommits ==
    /\ []((isDrawing /\ drawingMode = "line") =>
            /\ [x |-> tempLine.startX, y |-> tempLine.startY] \in PressPoints
            /\ [x |-> tempLine.currentX, y |-> tempLine.currentY]
                    \in PressPoints \cup MovePoints)
    /\ [][(DrawRelease /\ drawingMode = "line") =>
            /\ Len(sceneElements') = Len(sceneElements) + 1
            /\ Front(sceneElements') = sceneElements
            /\ LET el == sceneElements'[Len(sceneElements')] IN
               /\ el.x = tempLine.startX /\ el.y = tempLine.startY
               /\ el.endX = tempLine.currentX /\ el.endY = tempLine.currentY
               /\ el.points = NoPoints
            /\ history' = Append(history, sceneElements)
            /\ ~isDrawing'
            /\ activeDrawingTool' = NoTool]_vars

\* A segment pressed at (20, 20) and released at (100, 99) has just been
\* committed.
C25_Witness ==
    /\ lastOp = "drawComplete"
    /\ ~isDrawing
    /\ activeDrawingTool = NoTool
    /\ Len(sceneElements) > 0
    /\ LET el == sceneElements[Len(sceneElements)] IN
       /\ el.x = 20 /\ el.y = 20 /\ el.endX = 100 /\ el.endY = 99
       /\ el.points = NoPoints
    /\ Len(history) > 0
    /\ history[Len(history)] = Front(sceneElements)

\* C26: releasing a freehand draw that recorded fewer than 2 points creates
\* no element, leaves the scene graph, the past stack and the future stack
\* unchanged, and ends the drawing state.
C26_ShortFreehandDiscarded ==
    [][(DrawRelease /\ drawingMode = "freehand" /\ Len(tempPath) < 2) =>
        /\ sceneElements' = sceneElements
        /\ history' = history
        /\ future' = future
        /\ ~isDrawing'
        /\ tempPath' = << >>]_vars

\* A freehand draw of one point has just been released, with elements in
\* the scene.
C26_Witness ==
    /\ lastOp = "drawDiscard"
    /\ drawingMode = "freehand"
    /\ ~isDrawing
    /\ tempPath = << >>
    /\ Len(sceneElements) > 0


\* The requests prepared for image generations
ImageRequests == { p.request : p \in { q \in pipelines : q.type = "image" } }

\* The positions of the reference-bearing elements of a scene
ReferenceBearers(elements) ==
    { i \in 1..Len(elements) : HasReferenceImage(elements[i]) }

\* The position of the k-th reference-bearing element in array order
KthReferenceBearer(elements, k) ==
    CHOOSE i \in ReferenceBearers(elements) :
        Cardinality({ j \in ReferenceBearers(elements) : j <= i }) = k

\* C27: in an image generation the k-th reference-bearing element in array
\* order, whatever elements without a reference image stand before it, is
\* described in the prompt with reference index k, and the k-th entry of
\* the reference list of the same request holds its image bytes; the list
\* has one entry per reference-bearing element.
C27_ReferenceOrdinals ==
    \A req \in ImageRequests :
        LET els == req.elements
            n == Cardinality(ReferenceBearers(els)) IN
        /\ Len(req.referenceImagesBase64) = n
        /\ \A k \in 1..n :
              LET el == els[KthReferenceBearer(els, k)] IN
              /\ StringIncludes(req.fullPrompt,
                     "placed " \o GetPositionDescription(el.x, el.y)
                         \o KelvinClause(el)
                         \o " (Use the provided reference image #" \o ToString(k)
                         \o " for the visual style, color, and details of this "
                         \o el.subtype \o ")")
              /\ req.referenceImagesBase64[k] = ExtractBase64Data(el.referenceImage)

\* An image generation was submitted for a scene whose first element has
\* no reference image and whose second element has one.
C27_Witness ==
    \E req \in ImageRequests :
        /\ Len(req.elements) = 2
        /\ ~HasReferenceImage(req.elements[1])
        /\ HasReferenceImage(req.elements[2])
        /\ Len(req.referenceImagesBase64) = 1


\* A linear lighting element: a lighting element with an end anchor or a path
IsLinearLighting(el) ==
    el.type = "lighting" /\ ((el.endX # Undef /\ el.endY # Undef) \/ el.points # NoPoints)

SceneHasLinearLighting(elements) ==
    \E i \in 1..Len(elements) : IsLinearLighting(elements[i])

\* The requests prepared for generations of either kind
Requests == { p.request : p \in pipelines }

\* C28: the prompt of a generation contains the stray-light safety clause
\* when, and only when, at least one lighting element of the scene is
\* linear, whatever labels the elements carry after label edits.
C28_StrayLightClauseIffLinear ==
    \A req \in Requests :
        StringIncludes(req.fullPrompt, StrayLightClause)
            <=> SceneHasLinearLighting(req.elements)

\* C29: the guide compositor is invoked for a generation exactly when the
\* scene contains at least one linear lighting element, and otherwise the
\* original image bytes are forwarded; this for any labels the elements
\* carry, labels changed by a label edit included.
C29_CompositorIffLinear ==
    \A req \in Requests :
        req.composited <=> SceneHasLinearLighting(req.elements)


\* A point element: neither an end anchor nor a path
IsPointElement(el) == el.endX = Undef /\ el.endY = Undef /\ el.points = NoPoints

\* The pose prefix the description of a point element starts with: for a
\* person whose pose is not auto, the pose in words
ExpectedPosePrefix(el) ==
    IF el.type # "person" \/ el.pose = "auto" THEN ""
    ELSE CASE el.pose = "standing" -> "standing "
           [] el.pose = "sitting" -> "sitting "
           [] el.pose = "lying" -> "lying down "
           [] OTHER -> ""

\* The description of a point element as the 'Include exactly:' clause is
\* to carry it
ExpectedPointDescription(el) ==
    "a " \o ExpectedPosePrefix(el) \o ToLowerCase(el.subtype) \o " placed "
        \o GetPositionDescription(el.x, el.y)
        \o (IF el.type = "lighting"
            THEN " (Light Color Temperature strictly: "
                     \o ToString(el.colorTemperature) \o " Kelvin)"
            ELSE "")

\* The lamp of the example: one lighting point element at (20,20) with
\* temperature 4000, the base prompt left empty
IsLampExample(req) ==
    /\ Len(req.elements) = 1
    /\ req.elements[1].type = "lighting"
    /\ IsPointElement(req.elements[1])
    /\ ToLowerCase(req.elements[1].subtype) = "lamp"
    /\ req.elements[1].x = 20 /\ req.elements[1].y = 20
    /\ req.elements[1].colorTemperature = 4000
    /\ ~HasReferenceImage(req.elements[1])
    /\ StringIncludes(req.fullPrompt, "Architectural scene. ")

\* C30: the 'Include exactly:' clause of a prompt lists its elements in
\* array order, and a point element is listed as 'a ' + pose prefix
\* (persons with a pose other than auto) + lower-cased label + ' placed '
\* + position descriptor, followed for a lighting element by the Kelvin
\* clause; the lamp at (20,20) with 4000 Kelvin on an empty base prompt
\* gives 'Include exactly: a lamp placed top left area (Light Color
\* Temperature strictly: 4000 Kelvin)'.
C30_PointDescription ==
    \A req \in Requests :
        /\ \A i \in 1..Len(req.elements) :
              IsPointElement(req.elements[i]) =>
                  StringIncludes(req.fullPrompt,
                      (IF i = 1 THEN "Include exactly: " ELSE ", ")
                          \o ExpectedPointDescription(req.elements[i]))
        /\ IsLampExample(req) =>
              StringIncludes(req.fullPrompt,
                  "Include exactly: a lamp placed top left area (Light Color Temperature strictly: 4000 Kelvin). ")

\* A generation has just been submitted for the lamp of the example.
C30_Witness ==
    /\ \E req \in Requests : IsLampExample(req)
    /\ lastOp = "submit"


\* C23: in no reachable state is panning active while an element drag or
\* a drawing is active, whatever the order of the mouse, touch (one or two
\* fingers) and pointer events on the canvas and on the pin handles.
C23_PanningExcludesEditing ==
    ~(isPanning /\ (dragState # NoDrag \/ isDrawing))

\* C24: whenever a zoom change, by the wheel, by a pinch or by the reset
\* button, brings zoom to 1, pan is set to the origin (0,0).
C24_ZoomOneResetsPan ==
    [][(lastOp' \in {"wheel", "touchMove", "resetZoom"} /\ zoom' # zoom /\ zoom' = 100)
           => pan' = Origin]_vars


\* The nine labels, by vertical and horizontal bucket
PositionLabel(v, h) ==
    CASE v = "top" /\ h = "left" -> "top left area"
      [] v = "top" /\ h = "center" -> "top area"
      [] v = "top" /\ h = "right" -> "top right area"
      [] v = "middle" /\ h = "left" -> "left area"
      [] v = "middle" /\ h = "center" -> "exact center"
      [] v = "middle" /\ h = "right" -> "right area"
      [] v = "bottom" /\ h = "left" -> "bottom left area"
      [] v = "bottom" /\ h = "center" -> "bottom area"
      [] v = "bottom" /\ h = "right" -> "bottom right area"

VerticalBucket(y) == IF y < 35 THEN "top" ELSE IF y > 65 THEN "bottom" ELSE "middle"
HorizontalBucket(x) == IF x < 35 THEN "left" ELSE IF x > 65 THEN "right" ELSE "center"

\* getPositionDescription answers with the label of the two buckets for
\* every whole x and y of [0, 100]
BucketsEverywhere ==
    \A x \in 0..100, y \in 0..100 :
        GetPositionDescription(x, y) = PositionLabel(VerticalBucket(y), HorizontalBucket(x))

\* C31: the position descriptor is defined for every x, y in [0, 100] and
\* is one of nine labels: top iff y < 35, bottom iff y > 65, else middle;
\* left iff x < 35, right iff x > 65, else center; 35 and 65 themselves are
\* middle / center, and middle with center is 'exact center'. The prompt of
\* a generation places every point element with the label of its buckets.
C31_NineBuckets ==
    /\ BucketsEverywhere
    /\ GetPositionDescription(35, 65) = "exact center"
    /\ \A req \in Requests :
          \A i \in 1..Len(req.elements) :
              IsPointElement(req.elements[i]) =>
                  \E after \in { " (Light", ", ", ". " } :
                      StringIncludes(req.fullPrompt,
                          " placed " \o PositionLabel(VerticalBucket(req.elements[i].y),
                                                      HorizontalBucket(req.elements[i].x))
                              \o after)

\* A generation was submitted with an element dragged onto the limits
\* x = 35, y = 65.
C31_Witness ==
    \E req \in Requests :
        /\ Len(req.elements) = 1
        /\ req.elements[1].x = 35
        /\ req.elements[1].y = 65
        /\ StringIncludes(req.fullPrompt, " placed exact center")


\* A status poll of a video job is in progress
Polling == operationName = "Polling Status" /\ pc \in {"invoke", "wait"}

\* C32: every status poll of a video job goes through the retry policy on
\* its own: it starts with the full retry bound and the base delay, it
\* loses a retry only for a transient failure of its own (so what earlier
\* calls absorbed takes nothing from it), it waits and retries only after
\* a transient failure with a retry left, and a failure with no retry left
\* or that is not transient is thrown and fails the job.
C32_PollsRetryIndependently ==
    /\ [][pc' = "invoke" /\ pc = "pollWait" =>
            /\ operationName' = "Polling Status"
            /\ retries' = PollingRetries
            /\ delay' = PollingDelay
            /\ waits' = << >>
            /\ polls' = polls + 1]_vars
    /\ [](Polling =>
            /\ retries = PollingRetries - Len(waits)
            /\ delay = PollingDelay * Pow2(Len(waits)))
    /\ [][(Polling /\ pc = "invoke" /\ pc' = "wait") =>
            (retries > 0 /\ IsOverloaded(error'))]_vars
    /\ [][(Polling /\ pc = "invoke" /\ retryResult' = "thrown") =>
            /\ retries = 0 \/ ~IsOverloaded(error')
            /\ pc' = "settled"
            /\ serviceResult' = "rejected"
            /\ thrownMessage' = error'.message]_vars

\* The second poll of a job has used all five of its retries, after the
\* first poll was answered, and its sixth failure has failed the job.
C32_Witness ==
    /\ polls = 2
    /\ operationName = "Polling Status"
    /\ Len(waits) = PollingRetries
    /\ retries = 0
    /\ retryResult = "thrown"
    /\ serviceResult = "rejected"


\* The detached block of pipeline p ends in this step on its success path
SucceedsNow(p) == p \in pipelines /\ p \notin pipelines' /\ lastOp' # "fail"

\* C33: when a generation pipeline succeeds, the render history holds an
\* entry with that job's id, completed, with the result as its URL,
\* whatever the user selected, deleted, uploaded, cleared or used as input
\* while the job was pending.
C33_SuccessIsRecorded ==
    [][\A p \in pipelines :
          SucceedsNow(p) =>
              \E i \in 1..Len(renderHistory') :
                  /\ renderHistory'[i].id = p.id
                  /\ renderHistory'[i].status = "completed"
                  /\ renderHistory'[i].url = ResultUrl(p.type)]_vars


\* C34: the busy flag isGenerating is true in every state in which a
\* pipeline has been submitted and has not yet finished, for every
\* interleaving of the handlers.
C34_BusyWhileInFlight == pipelines # {} => isGenerating


\* The render history holds a pending video entry with this id
PendingVideo(id) ==
    \E i \in 1..Len(renderHistory) :
        /\ renderHistory[i].id = id
        /\ renderHistory[i].type = "video"
        /\ renderHistory[i].status = "pending"

\* C35: the poll loop issues no poll once an operation with done = true
\* was received, and, every remote call returning and the remote
\* reporting done in the end, every video job leaves pending and the busy
\* flag is cleared.
C35_PollingTerminates ==
    /\ [][polls' = polls + 1 => ~operationDone /\ ~operationDone']_vars
    /\ [](operationDone => pc # "pollWait")
    /\ \A id \in 1..MaxJobs : PendingVideo(id) ~> ~PendingVideo(id)
    /\ isGenerating ~> ~isGenerating

\* A video job that was polled MaxPolls times, found done, downloaded and
\* recorded as completed, with the busy flag cleared
C35_Witness ==
    /\ polls = MaxPolls
    /\ operationDone
    /\ operationName = "Video Download"
    /\ pc = "idle"
    /\ ~isGenerating
    /\ \E i \in 1..Len(renderHistory) :
          renderHistory[i].type = "video" /\ renderHistory[i].status = "completed"


\* C36: selectedElementId is null or the id of an element of the current
\* scene, after any sequence of add, remove, duplicate, draw, select,
\* undo, redo and image clear.
C36_SelectionInScene ==
    selectedElementId = NoId \/ selectedElementId \in ElementIds(sceneElements)


\* C37: activeRenderId is null or the id of an entry of the render
\* history, after any sequence of submit, completion, failure, select,
\* delete, image upload, replace and clear.
C37_ActiveRenderInHistory ==
    activeRenderId = NoId \/ activeRenderId \in ItemIds(renderHistory)

\* The active entry was deleted while another entry stays in the history
C37_Witness ==
    /\ activeRenderId = NoId
    /\ renderHistory # << >>
    /\ nextJobId > Len(renderHistory) + 1


\* The reference images of the remote call the detached block of pipeline
\* p makes: renderArchitecturalImage receives referenceImagesBase64 and
\* puts one part per entry into the request; generateVideoFromImage has no
\* such parameter and sends the base image alone.
OutboundReferenceImages(p) ==
    IF p.type = "video" THEN << >> ELSE p.request.referenceImagesBase64

\* C38: whenever the prompt of an outbound request refers to reference
\* image #k, the same request carries at least k reference images, in
\* image mode and in video mode.
C38_ReferencedImagesAreSent ==
    \A p \in pipelines : \A k \in 1..Len(p.request.elements) :
        StringIncludes(p.request.fullPrompt, "reference image #" \o ToString(k))
            => Len(OutboundReferenceImages(p)) >= k


\* The ratios the remote capability accepts, per mode
SupportedByRemote(generationMode) ==
    IF generationMode = "video" THEN { "16:9", "9:16" }
    ELSE { "16:9", "9:16", "1:1", "4:3", "3:4" }

\* C39: the aspect ratio passed to the remote capability is supported: in
\* video mode 16:9 or 9:16, in image mode never 'Original', for any order
\* of mode switches, history selections, ratio choices and image uploads
\* before the submission.
C39_OutboundRatioSupported ==
    \A p \in pipelines : p.aspectRatio \in SupportedByRemote(p.type)

\* A video job just submitted while the controls hold 1:1, a ratio the
\* video mode does not offer, over a portrait image: the request asks 9:16
C39_Witness ==
    /\ lastOp = "submit"
    /\ mode = "video"
    /\ aspectRatio = "1:1"
    /\ imageDimensions.height > imageDimensions.width
    /\ \E p \in pipelines : p.type = "video" /\ p.aspectRatio = "9:16"

\* C40: mode is 'video' only when isVideoUnlocked is true; no sequence of
\* user actions reaches the video mode without a correct unlock code
\* before it.
C40_VideoOnlyUnlocked == mode = "video" => isVideoUnlocked
====
